---- MODULE Spec2Model ----
(***************************************************************************)
(* LearningAbciApp (packages/valory/skills/learning_abci): the rounds, the *)
(* threshold collection they are built on and the workflow engine that     *)
(* applies the transition function.                                        *)
(*                                                                         *)
(* One agent's view of the replicated application is modelled: the active  *)
(* round, the SynchronizedData db, the number of participants and the      *)
(* round's collection of payloads in arrival order (the insertion order of *)
(* the Python dict).  Agents are interchangeable, so in each round an      *)
(* agent is named by the position at which its payload arrived.            *)
(*                                                                         *)
(* The transaction-preparation behaviour of one agent                      *)
(* (AnotherTxPreparationBehaviour) is modelled step by step, one step per  *)
(* call of a contract; it runs in TxPreparationSpec and is idle in Spec.   *)
(* The data-pull behaviours (DataPullBehaviour,                            *)
(* AlternativeDataPullBehaviour) run in DataPullSpec and the decision      *)
(* behaviour (DecisionMakingBehaviour) in DecisionSpec, one step per call  *)
(* of a collaborator.  Amounts are Python floats (IEEE 754 binary64),      *)
(* computed with the rounding of the float operations.                     *)
(* params is the configuration of the skill (Params of models.py).         *)
(* collaborators is what the services outside the skill answer: the        *)
(* balance of each token in the portfolio contract and its price at the    *)
(* price feed.                                                             *)
(***************************************************************************)
EXTENDS Integers, Sequences, FiniteSets, TLC

VARIABLES round, sd, collection, nb_participants, last_event, behaviour, params,
          collaborators

vars == <<round, sd, collection, nb_participants, last_event, behaviour, params, collaborators>>

\* Largest number of participants explored.
MaxParticipants == 4

(***************************************************************************)
(* Values                                                                  *)
(***************************************************************************)

\* Python None as a payload field or db value.
None == "None"

\* A key that is not in the db (db.get returns its default for it).
Absent == "<absent>"

\* end_block returned None: no event.
NoEvent == "<no event>"

\* class Event(Enum): the values of the members.
DONE == "done"
ERROR == "error"
TRANSACT == "transact"
NO_MAJORITY == "no_majority"
ROUND_TIMEOUT == "round_timeout"
COINGECKO == "coingecko"
COINMARKETCAP == "coinmarketcap"

Event == {DONE, ERROR, TRANSACT, NO_MAJORITY, ROUND_TIMEOUT, COINGECKO, COINMARKETCAP}

ApiSelectionRound == "ApiSelectionRound"
DataPullRound == "DataPullRound"
AlternativeDataPullRound == "AlternativeDataPullRound"
DecisionMakingRound == "DecisionMakingRound"
TxPreparationRound == "TxPreparationRound"
FinishedDecisionMakingRound == "FinishedDecisionMakingRound"
FinishedTxPreparationRound == "FinishedTxPreparationRound"

final_states == {FinishedDecisionMakingRound, FinishedTxPreparationRound}

NonTerminalRounds ==
    {ApiSelectionRound, DataPullRound, AlternativeDataPullRound,
     DecisionMakingRound, TxPreparationRound}

Rounds == NonTerminalRounds \cup final_states

initial_round_cls == ApiSelectionRound

\* The mutated table drops the TRANSACT entry of DecisionMakingRound.
transition_function_NoTransact ==
    [ApiSelectionRound |->
        [no_majority |-> ApiSelectionRound,
         round_timeout |-> ApiSelectionRound,
         coingecko |-> DataPullRound,
         coinmarketcap |-> AlternativeDataPullRound],
     DataPullRound |->
        [no_majority |-> DataPullRound,
         round_timeout |-> DataPullRound,
         done |-> DecisionMakingRound],
     AlternativeDataPullRound |->
        [no_majority |-> AlternativeDataPullRound,
         round_timeout |-> AlternativeDataPullRound,
         done |-> DecisionMakingRound],
     DecisionMakingRound |->
        [no_majority |-> DecisionMakingRound,
         round_timeout |-> DecisionMakingRound,
         done |-> FinishedDecisionMakingRound,
         error |-> FinishedDecisionMakingRound],
     TxPreparationRound |->
        [no_majority |-> TxPreparationRound,
         round_timeout |-> TxPreparationRound,
         done |-> FinishedTxPreparationRound],
     FinishedDecisionMakingRound |-> <<>>,
     FinishedTxPreparationRound |-> <<>>]

\* The mutated table sends both branch events of ApiSelectionRound to DataPullRound.
transition_function_OneBranch ==
    [transition_function_NoTransact EXCEPT
        ![ApiSelectionRound] =
            [no_majority |-> ApiSelectionRound,
             round_timeout |-> ApiSelectionRound,
             coingecko |-> DataPullRound,
             coinmarketcap |-> DataPullRound],
        ![DecisionMakingRound] =
            [no_majority |-> DecisionMakingRound,
             round_timeout |-> DecisionMakingRound,
             done |-> FinishedDecisionMakingRound,
             error |-> FinishedDecisionMakingRound,
             transact |-> TxPreparationRound]]

\* The mutated table enters DecisionMakingRound straight from ApiSelectionRound.
transition_function_SkipDataPull ==
    [transition_function_OneBranch EXCEPT
        ![ApiSelectionRound] =
            [no_majority |-> ApiSelectionRound,
             round_timeout |-> ApiSelectionRound,
             coingecko |-> DecisionMakingRound,
             coinmarketcap |-> AlternativeDataPullRound]]

\* A variant of the table in which DONE of DecisionMakingRound starts the
\* workflow again instead of finishing it.
transition_function_Restart ==
    [ApiSelectionRound |->
         [no_majority |-> ApiSelectionRound,
          round_timeout |-> ApiSelectionRound,
          coingecko |-> DataPullRound,
          coinmarketcap |-> AlternativeDataPullRound],
     DataPullRound |->
         [no_majority |-> DataPullRound,
          round_timeout |-> DataPullRound,
          done |-> DecisionMakingRound],
     AlternativeDataPullRound |->
         [no_majority |-> AlternativeDataPullRound,
          round_timeout |-> AlternativeDataPullRound,
          done |-> DecisionMakingRound],
     DecisionMakingRound |->
         [no_majority |-> DecisionMakingRound,
          round_timeout |-> DecisionMakingRound,
          done |-> ApiSelectionRound,
          error |-> FinishedDecisionMakingRound,
          transact |-> TxPreparationRound],
     TxPreparationRound |->
         [no_majority |-> TxPreparationRound,
          round_timeout |-> TxPreparationRound,
          done |-> FinishedTxPreparationRound],
     FinishedDecisionMakingRound |-> <<>>,
     FinishedTxPreparationRound |-> <<>>]

\* A variant of the transition function in which a data-pull round without a
\* majority goes back to the selection of the provider.
transition_function_RetryFromStart ==
    [ApiSelectionRound |->
        [no_majority |-> ApiSelectionRound,
         round_timeout |-> ApiSelectionRound,
         coingecko |-> DataPullRound,
         coinmarketcap |-> AlternativeDataPullRound],
     DataPullRound |->
        [no_majority |-> ApiSelectionRound,
         round_timeout |-> DataPullRound,
         done |-> DecisionMakingRound],
     AlternativeDataPullRound |->
        [no_majority |-> ApiSelectionRound,
         round_timeout |-> AlternativeDataPullRound,
         done |-> DecisionMakingRound],
     DecisionMakingRound |->
        [no_majority |-> DecisionMakingRound,
         round_timeout |-> DecisionMakingRound,
         done |-> FinishedDecisionMakingRound,
         error |-> FinishedDecisionMakingRound,
         transact |-> TxPreparationRound],
     TxPreparationRound |->
        [no_majority |-> TxPreparationRound,
         round_timeout |-> TxPreparationRound,
         done |-> FinishedTxPreparationRound],
     FinishedDecisionMakingRound |-> <<>>,
     FinishedTxPreparationRound |-> <<>>]

\* LearningAbciApp.transition_function: round -> (event -> next round).
transition_function ==
    [ApiSelectionRound |->
        [no_majority |-> ApiSelectionRound,
         round_timeout |-> ApiSelectionRound,
         coingecko |-> DataPullRound,
         coinmarketcap |-> AlternativeDataPullRound],
     DataPullRound |->
        [no_majority |-> DataPullRound,
         round_timeout |-> DataPullRound,
         done |-> DecisionMakingRound],
     AlternativeDataPullRound |->
        [no_majority |-> AlternativeDataPullRound,
         round_timeout |-> AlternativeDataPullRound,
         done |-> DecisionMakingRound],
     DecisionMakingRound |->
        [no_majority |-> DecisionMakingRound,
         round_timeout |-> DecisionMakingRound,
         done |-> FinishedDecisionMakingRound,
         error |-> FinishedDecisionMakingRound,
         transact |-> TxPreparationRound],
     TxPreparationRound |->
        [no_majority |-> TxPreparationRound,
         round_timeout |-> TxPreparationRound,
         done |-> FinishedTxPreparationRound],
     FinishedDecisionMakingRound |-> <<>>,
     FinishedTxPreparationRound |-> <<>>]

\* LearningAbciApp.event_to_timeout: no event has a timeout.
event_to_timeout == <<>>

(***************************************************************************)
(* Numbers and JSON                                                        *)
(***************************************************************************)

\* The absolute value of an integer.
int_abs(i) == IF i < 0 THEN 0 - i ELSE i

\* The base of the digits of a big natural number.
big_base == 10000

\* A natural number of any size is the list of its digits to the base
\* big_base, the least significant first, without a leading zero; <<>> is 0.
\* The operations on numbers are functions: like Python, they take the
\* values of their arguments.
BigNat == Seq(Nat)

big_of_int[i \in Nat] ==
    IF i = 0 THEN <<>> ELSE <<i % big_base>> \o big_of_int[i \div big_base]

\* The integer that a big number of at most 31 bits stands for.
int_of_big[a \in BigNat] ==
    IF a = <<>> THEN 0 ELSE Head(a) + big_base * int_of_big[Tail(a)]

\* The list without its leading zero digits.
big_norm[a \in BigNat] ==
    LET used == {i \in DOMAIN a : a[i] # 0}
    IN IF used = {} THEN <<>>
       ELSE SubSeq(a, 1, CHOOSE i \in used : \A j \in used : j <= i)

\* The sign of a - b: -1, 0 or 1.
big_cmp[a \in BigNat, b \in BigNat] ==
    IF Len(a) # Len(b) THEN (IF Len(a) < Len(b) THEN 0 - 1 ELSE 1)
    ELSE LET differ == {i \in DOMAIN a : a[i] # b[i]}
         IN IF differ = {} THEN 0
            ELSE LET top == CHOOSE i \in differ : \A j \in differ : j <= i
                 IN IF a[top] < b[top] THEN 0 - 1 ELSE 1

\* a + b + carry
big_add_carry[a \in BigNat, b \in BigNat, carry \in Nat] ==
    IF a = <<>> /\ b = <<>> THEN (IF carry = 0 THEN <<>> ELSE <<carry>>)
    ELSE LET x == (IF a = <<>> THEN 0 ELSE Head(a)) + (IF b = <<>> THEN 0 ELSE Head(b)) + carry
         IN <<x % big_base>>
            \o big_add_carry[IF a = <<>> THEN <<>> ELSE Tail(a),
                             IF b = <<>> THEN <<>> ELSE Tail(b), x \div big_base]

big_add[a \in BigNat, b \in BigNat] == big_add_carry[a, b, 0]

\* a - b - borrow, for a >= b + borrow, with leading zeros.
big_sub_borrow[a \in BigNat, b \in BigNat, borrow \in Nat] ==
    IF a = <<>> THEN <<>>
    ELSE LET x == Head(a) - (IF b = <<>> THEN 0 ELSE Head(b)) - borrow
         IN <<(x + big_base) % big_base>>
            \o big_sub_borrow[Tail(a), IF b = <<>> THEN <<>> ELSE Tail(b),
                              IF x < 0 THEN 1 ELSE 0]

big_sub[a \in BigNat, b \in BigNat] == big_norm[big_sub_borrow[a, b, 0]]

\* a * k + carry for a small number k
big_mul_digit[a \in BigNat, k \in Nat, carry \in Nat] ==
    IF k = 0 THEN <<>>
    ELSE IF a = <<>> THEN big_of_int[carry]
    ELSE LET x == Head(a) * k + carry
         IN <<x % big_base>> \o big_mul_digit[Tail(a), k, x \div big_base]

\* a * big_base ** k
big_shift[a \in BigNat, k \in Nat] == IF a = <<>> THEN <<>> ELSE [i \in 1..k |-> 0] \o a

\* a * b, from the digit i of b down, with the product by the digits above.
big_mul_from[a \in BigNat, b \in BigNat, i \in Nat, above \in BigNat] ==
    IF i = 0 THEN above
    ELSE big_mul_from[a, b, i - 1, big_add[big_mul_digit[a, b[i], 0], big_shift[above, 1]]]

big_mul[a \in BigNat, b \in BigNat] ==
    IF a = <<>> \/ b = <<>> THEN <<>> ELSE big_mul_from[a, b, Len(b), <<>>]

big_double[a \in BigNat] == big_add_carry[a, a, 0]

\* 2 ** k
big_power_of_two[k \in Nat] ==
    IF k < 13 THEN <<2 ^ k>> ELSE big_mul_digit[big_power_of_two[k - 13], 8192, 0]

\* p * 10**k for k >= 0, p for k < 0: a shift by whole digits and one
\* multiplication.
times_power_of_ten[p \in BigNat, k \in Int] ==
    IF k <= 0 THEN p ELSE big_mul_digit[big_shift[p, k \div 4], 10 ^ (k % 4), 0]

\* The largest digit d of lo..hi with d * q <= r.
quotient_search[r \in BigNat, q \in BigNat, lo \in Nat, hi \in Int] ==
    IF lo >= hi THEN lo
    ELSE IF big_cmp[big_mul_digit[q, (lo + hi + 1) \div 2, 0], r] <= 0
    THEN quotient_search[r, q, (lo + hi + 1) \div 2, hi]
    ELSE quotient_search[r, q, lo, (lo + hi + 1) \div 2 - 1]

\* floor(r / q) for r < q * big_base: the leading digits of r and q bound
\* the digit from both sides.
quotient_digit[r \in BigNat, q \in BigNat] ==
    IF big_cmp[r, q] < 0 THEN 0
    ELSE LET n == Len(q)
             lead == IF Len(r) > n THEN r[n + 1] * big_base + r[n] ELSE r[n]
             most == lead \div q[n]
         IN quotient_search[r, q, lead \div (q[n] + 1),
                            IF most < big_base THEN most ELSE big_base - 1]

\* One step of the long division of r by q with the digit d of the
\* quotient: the digit and what is left of r.
division_step[r \in BigNat, q \in BigNat, d \in Nat] ==
    [digit |-> d, remainder |-> big_sub[r, big_mul_digit[q, d, 0]]]

\* The step of the long division of p by q at the digit i of p, after the
\* step that left the remainder r.
next_division_step[r \in BigNat, q \in BigNat] == division_step[r, q, quotient_digit[r, q]]

\* Long division of p by q, before the digit i of p: the digit of the
\* quotient and the remainder of the last step, and the digits of the
\* quotient found before it.
long_division[p \in BigNat, q \in BigNat, i \in Nat,
              last \in [digit : Nat, remainder : BigNat], found \in BigNat] ==
    IF i = 0
    THEN [quotient |-> big_norm[<<last.digit>> \o found], remainder |-> last.remainder]
    ELSE long_division[p, q, i - 1,
                       next_division_step[big_norm[<<p[i]>> \o last.remainder], q],
                       <<last.digit>> \o found]

\* floor(p / q) and p mod q, for q > 0.
big_divmod[p \in BigNat, q \in BigNat] ==
    long_division[p, q, Len(p), [digit |-> 0, remainder |-> <<>>], <<>>]

\* The quotient of a division moved to the nearest natural number, a tie to
\* the even one.
round_half_even[dm \in [quotient : BigNat, remainder : BigNat], q \in BigNat] ==
    LET c == big_cmp[big_double[dm.remainder], q]
    IN IF c > 0 \/ (c = 0 /\ dm.quotient # <<>> /\ Head(dm.quotient) % 2 = 1)
       THEN big_add[dm.quotient, <<1>>]
       ELSE dm.quotient

\* p / q to the nearest natural number, for a q with a large leading digit.
scaled_div_nearest[p \in BigNat, q \in BigNat] == round_half_even[big_divmod[p, q], q]

\* The nearest natural number to p / q, a tie to the even one.  p and q are
\* first multiplied by the same digit, which makes the leading digit of q
\* large and the bounds of quotient_digit tight.
big_div_nearest[p \in BigNat, q \in BigNat] ==
    IF p = <<>> THEN <<>>
    ELSE scaled_div_nearest[big_mul_digit[p, big_base \div (q[Len(q)] + 1), 0],
                            big_mul_digit[q, big_base \div (q[Len(q)] + 1), 0]]

\* A float (IEEE 754 binary64) other than an infinity or a NaN is
\* sign * m * 2**e with m = 0 or 2**52 <= m < 2**53; subnormal numbers,
\* the negative zero and overflow are outside the values of the model.
\* The sign 0 is that of NoNumber.
Float == [sign : {0 - 1, 0, 1}, m : BigNat, e : Int]

float_zero == [sign |-> 1, m |-> <<>>, e |-> 0]

two52 == big_power_of_two[52]
two53 == big_power_of_two[53]
two104 == big_mul[two52, two52]

\* p, q and e changed so that q <= p < 2q and p/q * 2**e is unchanged: by
\* 13 binary digits at a time, then by the k of 0..13 that fits.
float_scale[p \in BigNat, q \in BigNat, e \in Int] ==
    IF big_cmp[big_mul_digit[p, 8192, 0], q] <= 0
    THEN float_scale[big_mul_digit[p, 8192, 0], q, e - 13]
    ELSE IF big_cmp[p, big_mul_digit[q, 16384, 0]] >= 0
    THEN float_scale[p, big_mul_digit[q, 8192, 0], e + 13]
    ELSE IF big_cmp[p, q] < 0
    THEN LET k == CHOOSE k \in 1..13 :
                      /\ big_cmp[q, big_mul_digit[p, 2 ^ k, 0]] <= 0
                      /\ big_cmp[big_mul_digit[p, 2 ^ k, 0], big_double[q]] < 0
         IN [p |-> big_mul_digit[p, 2 ^ k, 0], q |-> q, e |-> e - k]
    ELSE LET k == CHOOSE k \in 0..13 :
                      /\ big_cmp[big_mul_digit[q, 2 ^ k, 0], p] <= 0
                      /\ big_cmp[p, big_mul_digit[q, 2 ^ (k + 1), 0]] < 0
         IN [p |-> p, q |-> big_mul_digit[q, 2 ^ k, 0], e |-> e + k]

\* The float with the sign, the rounded mantissa m (2**52 <= m <= 2**53)
\* and the exponent e of 2**52 <= m < 2**53.
float_packed[sign \in Int, m \in BigNat, e \in Int] ==
    IF m = two53 THEN [sign |-> sign, m |-> two52, e |-> e + 1]
    ELSE [sign |-> sign, m |-> m, e |-> e]

\* The float nearest to sign * scaled.p/scaled.q * 2**scaled.e, where
\* scaled.q <= scaled.p < 2 * scaled.q.
float_rounded[sign \in Int, scaled \in [p : BigNat, q : BigNat, e : Int]] ==
    float_packed[sign, big_div_nearest[big_mul[scaled.p, two52], scaled.q], scaled.e - 52]

\* The float nearest to sign * p/q * 2**e, a tie to the even mantissa
\* (round-half-even, the rounding of every float operation).
float_nearest[sign \in Int, p \in BigNat, q \in BigNat, e \in Int] ==
    IF p = <<>> THEN float_zero ELSE float_rounded[sign, float_scale[p, q, e]]

\* float(i) of an integer.
float_of_int[i \in Int] ==
    float_nearest[IF i < 0 THEN 0 - 1 ELSE 1, big_of_int[IF i < 0 THEN 0 - i ELSE i], <<1>>, 0]

\* None where a float is expected (Optional[float]).
NoNumber == [sign |-> 0, m |-> <<>>, e |-> 0]

\* x * y
float_mul[x \in Float, y \in Float] ==
    float_nearest[x.sign * y.sign, big_mul[x.m, y.m], two104, x.e + y.e + 104]

\* x / y, for y # 0
float_div[x \in Float, y \in Float] ==
    float_nearest[x.sign * y.sign, x.m, y.m, x.e - y.e]

\* sx * a * 2**e + sy * b * 2**e as a float, for a, b > 0.
float_add_aligned[sx \in Int, a \in BigNat, sy \in Int, b \in BigNat, e \in Int] ==
    float_nearest[IF sx = sy \/ big_cmp[a, b] >= 0 THEN sx ELSE sy,
                  IF sx = sy THEN big_add[a, b]
                  ELSE IF big_cmp[a, b] >= 0 THEN big_sub[a, b]
                  ELSE big_sub[b, a],
                  <<1>>, e]

\* x + y
float_add[x \in Float, y \in Float] ==
    IF x.m = <<>> THEN y
    ELSE IF y.m = <<>> THEN x
    ELSE IF x.e < y.e
    THEN float_add_aligned[x.sign, x.m, y.sign, big_mul[y.m, big_power_of_two[y.e - x.e]], x.e]
    ELSE float_add_aligned[x.sign, big_mul[x.m, big_power_of_two[x.e - y.e]], y.sign, y.m, y.e]

\* -x, x - y, abs(x)
float_neg[x \in Float] == IF x.m = <<>> THEN x ELSE [x EXCEPT !.sign = 0 - @]
float_sub[x \in Float, y \in Float] == float_add[x, float_neg[y]]
float_abs[x \in Float] == [x EXCEPT !.sign = 1]

\* The sign of x - y: -1, 0 or 1.
float_cmp[x \in Float, y \in Float] ==
    IF x.m = <<>> /\ y.m = <<>> THEN 0
    ELSE IF x.m = <<>> THEN 0 - y.sign
    ELSE IF y.m = <<>> THEN x.sign
    ELSE IF x.sign # y.sign THEN x.sign
    ELSE IF x.e # y.e THEN (IF x.e > y.e THEN x.sign ELSE 0 - x.sign)
    ELSE x.sign * big_cmp[x.m, y.m]

\* x > y, x <= y
float_gt[x \in Float, y \in Float] == float_cmp[x, y] > 0
float_le[x \in Float, y \in Float] == float_cmp[x, y] <= 0

\* Python's round() of a float: the nearest integer, a tie to the even one.
py_round[x \in Float] ==
    x.sign * int_of_big[IF x.e >= 0 THEN big_mul[x.m, big_power_of_two[x.e]]
                        ELSE big_div_nearest[x.m, big_power_of_two[0 - x.e]]]

\* A number of the program is an int or a float.  An int of Python, as a
\* value of the model:
py_int(i) == [int |-> i]

\* isinstance(x, int)
is_int(x) == DOMAIN x = {"int"}

\* float(x): the conversion that an operation between an int and a float
\* applies to the int.
float_of_number(x) == IF is_int(x) THEN float_of_int[x.int] ELSE x

\* bool(x) of an Optional number: False for None, 0 and 0.0.
number_is_true(x) == x # NoNumber /\ float_of_number(x) # float_zero

\* x * y: the product of two ints is an int, any other product a float.
number_mul(x, y) ==
    IF is_int(x) /\ is_int(y) THEN py_int(x.int * y.int)
    ELSE float_mul[float_of_number(x), float_of_number(y)]

\* x / y (true division), for y # 0: a float.
number_div(x, y) == float_div[float_of_number(x), float_of_number(y)]

\* k zeros
zeros[k \in Int] == IF k <= 0 THEN "" ELSE "0" \o zeros[k - 1]

\* The decimal digits of a digit to the base big_base, all four of them.
digit_text[d \in Nat] == zeros[4 - Len(ToString(d))] \o ToString(d)

\* The decimal digits of a big number ("" for 0).
big_text[a \in BigNat] ==
    IF a = <<>> THEN ""
    ELSE IF Len(a) = 1 THEN ToString(a[1])
    ELSE big_text[Tail(a)] \o digit_text[Head(a)]

\* A text of digits without its trailing zeros.
strip_zeros[text \in STRING] ==
    IF text = "" THEN ""
    ELSE IF SubSeq(text, Len(text), Len(text)) = "0"
    THEN strip_zeros[SubSeq(text, 1, Len(text) - 1)]
    ELSE text

\* The float nearest to sign * digits * 10**scale: float() of a decimal
\* number.
float_of_decimal[sign \in Int, digits \in BigNat, scale \in Int] ==
    float_nearest[sign, times_power_of_ten[digits, scale],
                  times_power_of_ten[<<1>>, 0 - scale], 0]

\* The number of decimal digits of a big number.
decimal_length[a \in BigNat] ==
    IF a = <<>> THEN 0 ELSE 4 * (Len(a) - 1) + Len(ToString(a[Len(a)]))

\* The n with 10**n <= p/q < 10**(n+1): the difference of the lengths of p
\* and q, or one less.
decimal_exponent[p \in BigNat, q \in BigNat] ==
    IF big_cmp[times_power_of_ten[p, decimal_length[q] - decimal_length[p]],
               times_power_of_ten[q, decimal_length[p] - decimal_length[q]]] < 0
    THEN decimal_length[p] - decimal_length[q] - 1
    ELSE decimal_length[p] - decimal_length[q]

\* Of the two natural numbers next to p/q, the one that is not the nearest.
other_neighbour[p \in BigNat, q \in BigNat, nearest \in BigNat] ==
    IF big_cmp[big_mul[nearest, q], p] <= 0
    THEN big_add[nearest, <<1>>]
    ELSE big_sub[nearest, <<1>>]

\* The digits if float() of digits * 10**scale is the float x, <<>> if not.
digits_if_read_back[x \in Float, digits \in BigNat, scale \in Int] ==
    IF float_of_decimal[1, digits, scale] = float_abs[x] THEN digits ELSE <<>>

\* The natural number next to p/q that float() reads back, with the scale,
\* as the float x: the nearest one if it is read back, else the other one
\* (below a power of two the floats lie twice as close as above it, so the
\* number on the far side may be read back where the nearest is not), <<>>
\* if neither is.
neighbour_read_back[x \in Float, p \in BigNat, q \in BigNat, nearest \in BigNat,
                    scale \in Int] ==
    IF float_of_decimal[1, nearest, scale] = float_abs[x] THEN nearest
    ELSE digits_if_read_back[x, other_neighbour[p, q, nearest], scale]

\* The same, from p and q.
quotient_read_back[x \in Float, p \in BigNat, q \in BigNat, scale \in Int] ==
    neighbour_read_back[x, p, q, big_div_nearest[p, q], scale]

\* The number of k significant digits next to p/q that float() reads back
\* as the float x = p/q, the nearest first; <<>> if k digits are too few.
digits_read_back[x \in Float, p \in BigNat, q \in BigNat, n \in Int, k \in Nat] ==
    quotient_read_back[x, times_power_of_ten[p, k - 1 - n],
                       times_power_of_ten[q, n + 1 - k], n + 1 - k]

\* A number of k significant digits is read back as the float x = p/q.
reads_back[x \in Float, p \in BigNat, q \in BigNat, n \in Int, k \in Nat] ==
    digits_read_back[x, p, q, n, k] # <<>>

\* The least number of significant digits, among lo..hi, with which p/q is
\* read back as the float x; 17 digits always are enough.
shortest_length[x \in Float, p \in BigNat, q \in BigNat, n \in Int, lo \in Nat, hi \in Nat] ==
    IF lo = hi THEN lo
    ELSE IF reads_back[x, p, q, n, (lo + hi) \div 2]
    THEN shortest_length[x, p, q, n, lo, (lo + hi) \div 2]
    ELSE shortest_length[x, p, q, n, (lo + hi) \div 2 + 1, hi]

\* The k digits of a rounded number without the trailing zeros, and the
\* position of the point after the first decpt digits (the rounding may
\* have given k + 1 digits).
digits_and_point[text \in STRING, n \in Int, k \in Nat] ==
    [digits |-> strip_zeros[text], decpt |-> n + 1 + (Len(text) - k)]

\* The number of k significant digits that is read back as x = p/q.
rounded_digits[x \in Float, p \in BigNat, q \in BigNat, n \in Int, k \in Nat] ==
    digits_and_point[big_text[digits_read_back[x, p, q, n, k]], n, k]

\* The shortest decimal number that float() reads back as x = p/q, and of
\* the numbers of that length the one nearest to x.
shortest_digits[x \in Float, p \in BigNat, q \in BigNat, n \in Int] ==
    rounded_digits[x, p, q, n, shortest_length[x, p, q, n, 1, 17]]

\* The exponent of the exponent form: a sign and at least two digits.
exponent_text[exponent \in Int] ==
    (IF exponent < 0 THEN "-" ELSE "+")
    \o zeros[2 - Len(ToString(IF exponent < 0 THEN 0 - exponent ELSE exponent))]
    \o ToString(IF exponent < 0 THEN 0 - exponent ELSE exponent)

\* float_repr_style of digits with the point after the first decpt of
\* them: the exponent form when the point lies more than three zeros
\* before or more than sixteen digits after the first digit.
format_float[digits \in STRING, decpt \in Int] ==
    IF decpt <= 0 - 4 \/ decpt > 16
    THEN Head(digits) \o (IF Len(digits) > 1 THEN "." \o Tail(digits) ELSE "")
         \o "e" \o exponent_text[decpt - 1]
    ELSE IF decpt <= 0 THEN "0." \o zeros[0 - decpt] \o digits
    ELSE IF decpt >= Len(digits) THEN digits \o zeros[decpt - Len(digits)] \o ".0"
    ELSE SubSeq(digits, 1, decpt) \o "." \o SubSeq(digits, decpt + 1, Len(digits))

\* The written form of the shortest digits.
format_short[short \in [digits : STRING, decpt : Int]] ==
    format_float[short.digits, short.decpt]

\* repr() of x = p/q > 0.
repr_of_fraction[x \in Float, p \in BigNat, q \in BigNat] ==
    format_short[shortest_digits[x, p, q, decimal_exponent[p, q]]]

\* repr() of a float, as float.__repr__ writes it: the shortest digits that
\* read back as the float.
float_repr[x \in Float] ==
    IF x.m = <<>> THEN "0.0"
    ELSE (IF x.sign < 0 THEN "-" ELSE "")
         \o repr_of_fraction[x,
                             IF x.e >= 0 THEN big_mul[x.m, big_power_of_two[x.e]] ELSE x.m,
                             IF x.e >= 0 THEN <<1>> ELSE big_power_of_two[0 - x.e]]

\* The part of a text before the first occurrence of one of the characters,
\* and the part from that character on.
text_before[text \in STRING, stops \in SUBSET STRING] ==
    IF text = "" \/ Head(text) \in stops THEN ""
    ELSE Head(text) \o text_before[Tail(text), stops]

text_from[text \in STRING, stops \in SUBSET STRING] ==
    IF text = "" \/ Head(text) \in stops THEN text
    ELSE text_from[Tail(text), stops]

\* The value of a decimal digit.
digit_value[c \in STRING] == CHOOSE v \in 0..9 : ToString(v) = c

\* The integer that a text of at most nine digits denotes.
small_value[text \in STRING] ==
    IF text = "" THEN 0
    ELSE 10 * small_value[SubSeq(text, 1, Len(text) - 1)]
         + digit_value[SubSeq(text, Len(text), Len(text))]

\* The digits to the base big_base of the number that a text of decimal
\* digits denotes: four decimal digits each, from the end of the text.
digits_value[text \in STRING] ==
    IF Len(text) <= 4 THEN <<small_value[text]>>
    ELSE <<small_value[SubSeq(text, Len(text) - 3, Len(text))]>>
         \o digits_value[SubSeq(text, 1, Len(text) - 4)]

\* The integer that the text of an exponent denotes: "" or e, a sign and
\* digits.
exponent_value[text \in STRING] ==
    IF text = "" THEN 0
    ELSE IF Head(Tail(text)) = "-" THEN 0 - small_value[Tail(Tail(text))]
    ELSE IF Head(Tail(text)) = "+" THEN small_value[Tail(Tail(text))]
    ELSE small_value[Tail(text)]

\* The float of the digits before the point, the digits after it and the
\* exponent.
float_of_parts[sign \in Int, whole \in STRING, fraction \in STRING, exponent \in Int] ==
    float_of_decimal[sign, big_norm[digits_value[whole \o fraction]], exponent - Len(fraction)]

\* The float of a number without sign: the digits up to the exponent, and
\* the exponent.
float_of_text[sign \in Int, mantissa \in STRING, exponent \in STRING] ==
    float_of_parts[sign, text_before[mantissa, {"."}],
                   IF text_from[mantissa, {"."}] = "" THEN ""
                   ELSE Tail(text_from[mantissa, {"."}]),
                   exponent_value[exponent]]

\* float() of a text: sign, digits, and optionally a point with digits and
\* an exponent.
float_of_string[text \in STRING] ==
    float_of_text[IF text # "" /\ Head(text) = "-" THEN 0 - 1 ELSE 1,
                  text_before[IF text # "" /\ Head(text) = "-" THEN Tail(text) ELSE text,
                              {"e", "E"}],
                  text_from[text, {"e", "E"}]]

\* A parser that drops the digits after the point.
json_number_Truncating(text) ==
    float_of_string[text_before[text, {".", "e", "E"}]]

\* int() of a text: a sign and digits.
int_of_string[text \in STRING] ==
    IF text # "" /\ Head(text) = "-" THEN 0 - int_of_big[big_norm[digits_value[Tail(text)]]]
    ELSE int_of_big[big_norm[digits_value[text]]]

\* The number that a JSON number denotes: an int when the text has neither
\* a point nor an exponent, a float otherwise.
json_number(text) ==
    IF text_from[text, {".", "e", "E"}] = "" THEN py_int(int_of_string[text])
    ELSE float_of_string[text]

\* The text json.dumps writes for a number: int.__repr__ or float.__repr__.
number_repr(x) == IF is_int(x) THEN ToString(x.int) ELSE float_repr[x]

\* The keys the model uses, in the order of sorted().
sorted_keys == <<"DAI", "ETH", "USDC">>

\* dict.get: the value of a key in a dict, given as the list of its items in
\* insertion order, or the default.
dict_get(items, key, default) ==
    IF \E i \in DOMAIN items : items[i].key = key
    THEN items[CHOOSE i \in DOMAIN items : items[i].key = key].value
    ELSE default

\* The keys of a dict.
dict_keys(items) == {items[i].key : i \in DOMAIN items}

\* The items of a dict in the order of its sorted keys.
sorted_items(items) ==
    LET present == SelectSeq(sorted_keys, LAMBDA k : k \in dict_keys(items))
    IN [i \in DOMAIN present |-> [key |-> present[i], value |-> dict_get(items, present[i], 0)]]

\* The text of the items of a JSON object.
RECURSIVE members_text(_)
members_text(items) ==
    IF items = <<>> THEN ""
    ELSE "\"" \o Head(items).key \o "\": " \o number_repr(Head(items).value)
         \o (IF Tail(items) = <<>> THEN "" ELSE ", " \o members_text(Tail(items)))

\* json.dumps(d, sort_keys=True) of a dict of numbers.
json_dumps(items) == "{" \o members_text(sorted_items(items)) \o "}"

\* The items of the members of a JSON object, from the text after "{" or
\* after ", ".
RECURSIVE json_members(_)
json_members(text) ==
    IF text = "" \/ Head(text) = "}" THEN <<>>
    ELSE LET key == text_before[Tail(text), {"\""}]
             after_key == Tail(text_from[Tail(text), {"\""}])
             number_text == text_before[Tail(Tail(after_key)), {",", "}"}]
             after_value == text_from[after_key, {",", "}"}]
             next == IF Head(after_value) = "," THEN Tail(Tail(after_value)) ELSE after_value
         IN <<[key |-> key, value |-> json_number(number_text)]>> \o json_members(next)

\* json.loads of the text of a JSON object whose values are numbers: the
\* items of the dict in the order of the text.
json_loads(text) == json_members(Tail(text))

(***************************************************************************)
(* SynchronizedData                                                        *)
(***************************************************************************)

\* The db of a run that has committed nothing; api_selection is the entry
\* the run was set up with (Absent when it has none).
InitialDb(selection) ==
    [api_selection |-> selection,
     token_values |-> Absent,
     total_portfolio_value |-> Absent,
     adjustment_balances |-> Absent,
     tx_submitter |-> Absent,
     most_voted_tx_hash |-> Absent,
     participant_to_data_round |-> <<>>,
     participant_to_decision_making_round |-> <<>>,
     participant_to_tx_round |-> <<>>]

\* The keys a round projects payload fields into.
BusinessKeys ==
    {"api_selection", "token_values", "total_portfolio_value",
     "adjustment_balances", "tx_submitter", "most_voted_tx_hash"}

\* db.get(key, default)
db_get(db, key, default) == IF db[key] = Absent THEN default ELSE db[key]

\* SynchronizedData.api_selection
api_selection(db) == db_get(db, "api_selection", "coingecko")

\* SynchronizedData.token_values
token_values(db) == db_get(db, "token_values", None)

\* SynchronizedData.total_portfolio_value
total_portfolio_value(db) == db_get(db, "total_portfolio_value", None)

\* SynchronizedData.adjustment_balances
adjustment_balances(db) == db_get(db, "adjustment_balances", None)

\* SynchronizedData.most_voted_tx_hash
most_voted_tx_hash(db) == db_get(db, "most_voted_tx_hash", None)

(***************************************************************************)
(* Payloads: the business fields of a payload, in the order of the payload *)
(* class; the sender is kept beside them in the collection.                *)
(***************************************************************************)

ApiSelectionPayloads == {<<"coingecko">>, <<"coinmarketcap">>}

DataPullPayloads == {<<"{\"ETH\": 20.0}", "20.0">>, <<"{\"ETH\": 60.0, \"USDC\": 40.0}", "100.0">>}

DecisionMakingPayloads ==
    {<<DONE, None>>, <<TRANSACT, "{\"ETH\": 5.0}">>, <<TRANSACT, "{\"USDC\": 7.0}">>, <<TRANSACT, None>>}

\* tx_submitter is auto_behaviour_id() of AnotherTxPreparationBehaviour, the
\* behaviour that every agent runs.
TxPreparationPayloads ==
    {<<"another_tx_preparation_behaviour", "0xaa">>,
     <<"another_tx_preparation_behaviour", "0xbb">>,
     <<"another_tx_preparation_behaviour", None>>}

\* payload_class of each round.
payload_class(r) ==
    CASE r = ApiSelectionRound -> ApiSelectionPayloads
      [] r = DataPullRound -> DataPullPayloads
      [] r = AlternativeDataPullRound -> DataPullPayloads
      [] r = DecisionMakingRound -> DecisionMakingPayloads
      [] r = TxPreparationRound -> TxPreparationPayloads
      [] OTHER -> {}

(***************************************************************************)
(* Threshold collection (CollectSameUntilThresholdRound)                   *)
(***************************************************************************)

\* A collection is a sequence of [sender, values] records in arrival order.
Senders(coll) == {coll[i].sender : i \in DOMAIN coll}

\* The agents of the collection that submitted the value v.
Voters(coll, v) == {coll[i].sender : i \in {j \in DOMAIN coll : coll[j].values = v}}

\* payload_values_count[v]
payload_values_count(coll, v) == Cardinality(Voters(coll, v))

\* The mutated threshold is a simple majority bound, half of the participants.
consensus_threshold_Half(n) == n \div 2

\* consensus_threshold: strictly more than two thirds of the participants.
consensus_threshold(n) == (2 * n) \div 3 + 1

\* The number of votes of the largest class of equal payloads (0 when empty).
largest_nb_votes(coll) ==
    IF coll = <<>> THEN 0
    ELSE LET counts == {payload_values_count(coll, coll[i].values) : i \in DOMAIN coll}
         IN CHOOSE c \in counts : \A d \in counts : d <= c

\* threshold_reached
threshold_reached(coll, n) ==
    \E i \in DOMAIN coll :
        payload_values_count(coll, coll[i].values) >= consensus_threshold(n)

\* most_voted_payload_values: the most common value, the earliest one on a tie.
most_voted_payload_values(coll) ==
    LET first == CHOOSE i \in DOMAIN coll :
                    /\ payload_values_count(coll, coll[i].values) = largest_nb_votes(coll)
                    /\ \A j \in 1..(i - 1) :
                          payload_values_count(coll, coll[j].values) < largest_nb_votes(coll)
    IN coll[first].values

\* most_voted_payload: the first field of the most voted value.
most_voted_payload(coll) == most_voted_payload_values(coll)[1]

\* is_majority_possible: the largest class plus the agents that have not
\* submitted can still reach the threshold.
is_majority_possible(coll, n) ==
    (n - Len(coll)) + largest_nb_votes(coll) >= consensus_threshold(n)

\* serialized_collection: the agent -> payload map that is stored in the db.
serialized_collection(coll) == coll

\* BaseSynchronizedData.update for one key.
update(db, key, value) == [db EXCEPT ![key] = value]

\* The result of end_block: the synchronized data and the event (NoEvent for None).
Result(db, event) == [sd |-> db, event |-> event]

(***************************************************************************)
(* Rounds                                                                  *)
(***************************************************************************)

\* The mutant emits COINMARKETCAP without recording the new selection.
ApiSelectionRound_end_block_NoUpdate(db, coll, n) ==
    IF threshold_reached(coll, n)
    THEN IF api_selection(db) # most_voted_payload(coll)
         THEN Result(db, COINMARKETCAP)
         ELSE Result(db, COINGECKO)
    ELSE Result(db, NoEvent)

\* ApiSelectionRound.end_block
ApiSelectionRound_end_block(db, coll, n) ==
    IF threshold_reached(coll, n)
    THEN IF api_selection(db) # most_voted_payload(coll)
         THEN Result(update(db, "api_selection", most_voted_payload(coll)), COINMARKETCAP)
         ELSE Result(db, COINGECKO)
    ELSE Result(db, NoEvent)

\* A variant of the search that compares the event with the other field of
\* the payload.
first_payload_with_event_OtherField(coll, event) ==
    LET hits == {i \in DOMAIN coll : coll[i].values[2] = event}
    IN IF hits = {} THEN None
       ELSE coll[CHOOSE i \in hits : \A j \in hits : i <= j].values

\* The payload the search loop of DecisionMakingRound.end_block stops at:
\* the first payload of the collection whose event is the given one.
first_payload_with_event(coll, event) ==
    LET hits == {i \in DOMAIN coll : coll[i].values[1] = event}
    IN IF hits = {} THEN None
       ELSE coll[CHOOSE i \in hits : \A j \in hits : i <= j].values

\* The mutant has lost the threshold test: it searches the collection at
\* every end of block.
DecisionMakingRound_end_block_NoThreshold(db, coll, n) ==
    LET event == IF coll = <<>> THEN None ELSE most_voted_payload(coll)
        most_voted_payload_data == first_payload_with_event(coll, event)
    IN IF most_voted_payload_data = None
       THEN Result(db, ERROR)
       ELSE IF most_voted_payload_data[2] # None
            THEN Result(update(db, "adjustment_balances", most_voted_payload_data[2]), TRANSACT)
            ELSE Result(db, DONE)

\* A variant of DecisionMakingRound.end_block that gives up as soon as the
\* threshold is not reached.
DecisionMakingRound_end_block_EagerNoMajority(db, coll, n) ==
    IF threshold_reached(coll, n)
    THEN LET most_voted_payload_data ==
                 first_payload_with_event(coll, most_voted_payload(coll))
         IN IF most_voted_payload_data = None
            THEN Result(db, ERROR)
            ELSE IF most_voted_payload_data[2] # None
                 THEN Result(update(db, "adjustment_balances", most_voted_payload_data[2]),
                             TRANSACT)
                 ELSE Result(db, DONE)
    ELSE Result(db, NO_MAJORITY)

\* DecisionMakingRound.end_block
DecisionMakingRound_end_block(db, coll, n) ==
    IF threshold_reached(coll, n)
    THEN LET most_voted_payload_data ==
                 first_payload_with_event(coll, most_voted_payload(coll))
         IN IF most_voted_payload_data = None
            THEN Result(db, ERROR)
            ELSE IF most_voted_payload_data[2] # None
                 THEN Result(update(db, "adjustment_balances", most_voted_payload_data[2]),
                             TRANSACT)
                 ELSE Result(db, DONE)
    ELSE IF ~is_majority_possible(coll, n)
         THEN Result(db, NO_MAJORITY)
         ELSE Result(db, NoEvent)

\* AlternativeDataPullRound.collection_key and selection_key
AlternativeDataPullRound_collection_key == "participant_to_data_round"
AlternativeDataPullRound_selection_key == <<"token_values", "total_portfolio_value">>

\* DataPullRound.collection_key and selection_key
DataPullRound_collection_key == "participant_to_data_round"
DataPullRound_selection_key == <<"token_values", "total_portfolio_value">>

\* The mutant lists the selection keys in the wrong order.
TxPreparationRound_selection_key_Swapped == <<"most_voted_tx_hash", "tx_submitter">>

\* TxPreparationRound.collection_key and selection_key
TxPreparationRound_collection_key == "participant_to_tx_round"
TxPreparationRound_selection_key == <<"tx_submitter", "most_voted_tx_hash">>

\* collection_key of the rounds that use the inherited end_block.
collection_key(r) ==
    CASE r = DataPullRound -> DataPullRound_collection_key
      [] r = AlternativeDataPullRound -> AlternativeDataPullRound_collection_key
      [] r = TxPreparationRound -> TxPreparationRound_collection_key

\* selection_key of the rounds that use the inherited end_block.
selection_key(r) ==
    CASE r = DataPullRound -> DataPullRound_selection_key
      [] r = AlternativeDataPullRound -> AlternativeDataPullRound_selection_key
      [] r = TxPreparationRound -> TxPreparationRound_selection_key

\* The db extended with the selection keys, each set to the field of the
\* value at the same position.
RECURSIVE project(_, _, _)
project(db, keys, values) ==
    IF keys = <<>> THEN db
    ELSE project(update(db, Head(keys), Head(values)), Tail(keys), Tail(values))

\* CollectSameUntilThresholdRound.end_block, inherited by DataPullRound,
\* AlternativeDataPullRound and TxPreparationRound (done_event = DONE,
\* no_majority_event = NO_MAJORITY).
CollectSameUntilThresholdRound_end_block(r, db, coll, n) ==
    IF threshold_reached(coll, n)
    THEN Result(project(update(db, collection_key(r), serialized_collection(coll)),
                        selection_key(r), most_voted_payload_values(coll)),
                DONE)
    ELSE IF ~is_majority_possible(coll, n)
         THEN Result(db, NO_MAJORITY)
         ELSE Result(db, NoEvent)

\* The events the return statements of the round's end_block name.
returned_events(r) ==
    CASE r = ApiSelectionRound -> {COINMARKETCAP, COINGECKO}
      [] r = DecisionMakingRound -> {ERROR, DONE, TRANSACT, NO_MAJORITY}
      [] r \in {DataPullRound, AlternativeDataPullRound, TxPreparationRound} ->
            {DONE, NO_MAJORITY}
      [] OTHER -> {}

\* end_block of the round r (the method resolution of the round classes).
end_block(r, db, coll, n) ==
    CASE r = ApiSelectionRound -> ApiSelectionRound_end_block(db, coll, n)
      [] r = DecisionMakingRound -> DecisionMakingRound_end_block(db, coll, n)
      [] r \in {DataPullRound, AlternativeDataPullRound, TxPreparationRound} ->
            CollectSameUntilThresholdRound_end_block(r, db, coll, n)
      [] OTHER -> Result(db, NoEvent)

(***************************************************************************)
(* The workflow engine                                                     *)
(***************************************************************************)

\* Params: the configuration of the skill that the model uses, here a valid
\* one with two tokens.
DefaultParams ==
    [api_selection_string |-> "coingecko",
     tokens_to_rebalance |-> <<"ETH", "USDC">>,
     target_percentages |-> <<50, 50>>,
     variation_threshold |-> 5]

\* The collaborators of a specification in which no behaviour calls them.
NoCollaborators == [balances |-> <<>>, prices |-> <<>>]

\* No answer of a contract has been received.
NoMessage == [performative |-> None]

\* The behaviour of the agent is not running.
IdleBehaviour ==
    [pc |-> "idle",
     todo |-> <<>>,
     multi_send_txs |-> <<>>,
     contract_api_msg |-> NoMessage,
     response_msg |-> NoMessage,
     tx_hash |-> None]

Init ==
    /\ round = initial_round_cls
    /\ nb_participants \in 1..MaxParticipants
    /\ \E selection \in {Absent, "coingecko", "coinmarketcap"} : sd = InitialDb(selection)
    /\ collection = <<>>
    /\ last_event = NoEvent
    /\ behaviour = IdleBehaviour
    /\ params = DefaultParams
    /\ collaborators = NoCollaborators

\* CollectionRound.process_payload: an agent that has not submitted in this
\* round adds its payload to the collection.
Submit(values) ==
    /\ round \in NonTerminalRounds
    /\ Len(collection) < nb_participants
    /\ values \in payload_class(round)
    /\ collection' = Append(collection, [sender |-> Len(collection) + 1, values |-> values])
    /\ UNCHANGED <<round, sd, nb_participants, last_event, behaviour, params, collaborators>>

\* The end of a block: the active round's end_block runs and, when it returns
\* an event, AbciApp.process_event looks the event up in the transition
\* function, and schedules the next round with the returned data and an
\* empty collection.  With an event that has no entry the engine cannot
\* proceed.  When the round scheduled is the round that ends (it is entered
\* afresh), the behaviour of the agent for that round starts again, as
\* started; when another round is scheduled the behaviour is stopped where it
\* is.
EndBlockWith(started) ==
    /\ round \in NonTerminalRounds
    /\ LET result == end_block(round, sd, collection, nb_participants)
       IN IF /\ result.event # NoEvent
             /\ result.event \in DOMAIN transition_function[round]
          THEN /\ round' = transition_function[round][result.event]
               /\ sd' = result.sd
               /\ collection' = <<>>
               /\ last_event' = result.event
               /\ behaviour' = IF transition_function[round][result.event] = round
                               THEN started
                               ELSE behaviour
          ELSE UNCHANGED <<round, sd, collection, last_event, behaviour>>
    /\ UNCHANGED <<nb_participants, params, collaborators>>

\* The end of a block in the runs in which the behaviours are not followed.
EndBlock == EndBlockWith(behaviour)

\* A round timeout: the framework fires the timeout event of the active
\* round when event_to_timeout gives the event a timeout; the event is
\* applied like any other, with the data of the round unchanged.
\* event_to_timeout is empty, so the action is never enabled, and Next is
\* written without it.
Timeout ==
    /\ round \in NonTerminalRounds
    /\ ROUND_TIMEOUT \in DOMAIN event_to_timeout
    /\ ROUND_TIMEOUT \in DOMAIN transition_function[round]
    /\ round' = transition_function[round][ROUND_TIMEOUT]
    /\ collection' = <<>>
    /\ last_event' = ROUND_TIMEOUT
    /\ UNCHANGED <<sd, nb_participants, behaviour, params, collaborators>>

Next ==
    \/ \E values \in payload_class(round) : Submit(values)
    \/ EndBlock

Spec == Init /\ [][Next]_vars

\* The engine under fairness: end_block is run at the end of every block, so
\* an event that end_block keeps returning is eventually applied.
FairSpec == Init /\ [][Next]_vars /\ WF_vars(EndBlock)

\* A variant of the resubmission in which the second payload of an agent is
\* added to the collection instead of replacing the first one.
Resubmit_Additive(i, values) ==
    /\ round \in NonTerminalRounds
    /\ i \in DOMAIN collection
    /\ values \in payload_class(round)
    /\ values # collection[i].values
    /\ collection' = Append(collection, [sender |-> collection[i].sender, values |-> values])
    /\ UNCHANGED <<round, sd, nb_participants, last_event, behaviour, params, collaborators>>

\* submit(agent_id, payload) by an agent that has already submitted in this
\* round: the payload replaces the agent's entry.
Resubmit(i, values) ==
    /\ round \in NonTerminalRounds
    /\ i \in DOMAIN collection
    /\ values \in payload_class(round)
    /\ values # collection[i].values
    /\ collection' = [collection EXCEPT ![i].values = values]
    /\ UNCHANGED <<round, sd, nb_participants, last_event, behaviour, params, collaborators>>

\* The engine with agents that submit again in a round.
ResubmitNext ==
    \/ \E values \in payload_class(round) : Submit(values)
    \/ \E i \in 1..MaxParticipants, values \in payload_class(round) : Resubmit(i, values)
    \/ EndBlock

ResubmitSpec == Init /\ [][ResubmitNext]_vars

(***************************************************************************)
(* AnotherTxPreparationBehaviour                                           *)
(***************************************************************************)

\* ContractApiMessage.Performative: the performatives of the answers.
RAW_TRANSACTION == "raw_transaction"
PERFORMATIVE_STATE == "state"
PERFORMATIVE_ERROR == "error"

\* The adjustment maps the behaviour is run on: the JSON text that
\* DecisionMakingRound committed as adjustment_balances.
AdjustmentMaps ==
    {"{\"ETH\": 5.0}", "{\"USDC\": 7.0}", "{\"ETH\": 5.0, \"USDC\": 7.0}", "{\"ETH\": 2.5, \"USDC\": 7.5}"}

\* The call data of adjustBalance(user, token, new_balance) of the MOCKDEX
\* contract, as bytes.
adjustBalance(token, new_balance) ==
    "adjustBalance(" \o token \o "," \o ToString(new_balance) \o ")"

\* The answers the contract api can give to the adjustBalance request.
AdjustBalanceResponses(token, new_balance) ==
    {[performative |-> PERFORMATIVE_ERROR, data |-> None],
     [performative |-> RAW_TRANSACTION, data |-> None],
     [performative |-> RAW_TRANSACTION, data |-> adjustBalance(token, new_balance)]}

\* The empty dict.
EmptyDict == <<>>

\* get_adjust_balance_data after the answer has arrived: {} without a raw
\* transaction or without its data, the minimal transaction data otherwise.
get_adjust_balance_data(response_msg) ==
    IF response_msg.performative # RAW_TRANSACTION THEN EmptyDict
    ELSE IF response_msg.data = None THEN EmptyDict
    ELSE [to_address |-> "MOCKDEX", data |-> response_msg.data]

\* The data of the transactions of a list, in order.
RECURSIVE joined_data(_)
joined_data(txs) ==
    IF txs = <<>> THEN ""
    ELSE Head(txs).data \o ";" \o joined_data(Tail(txs))

\* MultiSendContract.get_tx_data: the call data that packs a list of
\* transactions.
get_tx_data(multi_send_txs) ==
    "multisend[" \o joined_data(multi_send_txs) \o "]"

\* The answers the contract api can give to the get_tx_data request: an
\* error, a raw transaction without data, the raw transaction with the
\* packed call.
MultisendResponses(multi_send_txs) ==
    {[performative |-> PERFORMATIVE_ERROR, data |-> None],
     [performative |-> RAW_TRANSACTION, data |-> None],
     [performative |-> RAW_TRANSACTION, data |-> get_tx_data(multi_send_txs)]}

\* GnosisSafeContract.get_raw_safe_transaction_hash of a multisend call.
get_raw_safe_transaction_hash(data) == "digest(" \o data \o ")"

\* The answers the contract api can give to the request of the hash: an
\* error, a state without tx_hash, a tx_hash of a wrong length, the hash.
SafeHashResponses(data) ==
    {[performative |-> PERFORMATIVE_ERROR, tx_hash |-> None, length_ok |-> FALSE],
     [performative |-> PERFORMATIVE_STATE, tx_hash |-> None, length_ok |-> FALSE],
     [performative |-> PERFORMATIVE_STATE, tx_hash |-> "0x", length_ok |-> FALSE],
     [performative |-> PERFORMATIVE_STATE, tx_hash |-> get_raw_safe_transaction_hash(data),
      length_ok |-> TRUE]}

\* hash_payload_to_hex: the hash with the parameters of the Safe
\* transaction.
hash_payload_to_hex(safe_tx_hash, to_address, data) ==
    safe_tx_hash \o "|" \o to_address \o "|" \o data

\* _build_safe_tx_hash after the answer has arrived.
build_safe_tx_hash(data, response_msg) ==
    IF response_msg.performative # PERFORMATIVE_STATE THEN None
    ELSE IF response_msg.tx_hash = None \/ ~response_msg.length_ok THEN None
    ELSE hash_payload_to_hex(response_msg.tx_hash, "multisend_address", data)

\* A collection in which n agents sent the same values.
unanimous_collection(n, values) ==
    [i \in 1..n |-> [sender |-> i, values |-> values]]

\* SynchronizedData at the start of DecisionMakingRound: the db that the
\* rounds before it leave when all agents agree on the selection and, in
\* the data-pull round that the selection leads to, on the data.
db_before_decision_making(n, selection, data) ==
    LET selected == ApiSelectionRound_end_block(
                        InitialDb(Absent), unanimous_collection(n, <<selection>>), n)
    IN CollectSameUntilThresholdRound_end_block(
           transition_function[ApiSelectionRound][selected.event], selected.sd,
           unanimous_collection(n, data), n).sd

\* SynchronizedData at the start of TxPreparationRound: the db that the
\* rounds before it leave when all agents agree on each payload.
db_before_tx_preparation(n, selection, data, adjustment) ==
    DecisionMakingRound_end_block(
        db_before_decision_making(n, selection, data),
        unanimous_collection(n, <<TRANSACT, adjustment>>), n).sd

\* auto_behaviour_id() of AnotherTxPreparationBehaviour.
auto_behaviour_id == "another_tx_preparation_behaviour"

\* The round that AnotherTxPreparationBehaviour gives as its matching_round.
\* rounds.py defines no class of that name, and the transition function
\* leads to no such round.
AnotherTxPreparationRound == "AnotherTxPreparationRound"

\* async_act of AnotherTxPreparationBehaviour applied to the data it reads:
\* the SynchronizedData of a run in which DecisionMakingRound has committed
\* an adjustment map, the agents having agreed on each payload.  A
\* behaviour runs while its matching round is active; the workflow enters
\* TxPreparationRound and never the round this behaviour names, so the
\* specification starts where the behaviour would start: with its matching
\* round active, at the beginning of async_act.
TxPreparationInit ==
    /\ round = AnotherTxPreparationRound
    /\ nb_participants \in 1..MaxParticipants
    /\ \E selection \in {"coingecko", "coinmarketcap"}, data \in DataPullPayloads,
          adjustment \in AdjustmentMaps :
           /\ sd = db_before_tx_preparation(nb_participants, selection, data, adjustment)
           /\ params = [DefaultParams EXCEPT !.api_selection_string = selection]
    /\ collection = <<>>
    /\ last_event = TRANSACT
    /\ behaviour = [IdleBehaviour EXCEPT !.pc = "async_act"]
    /\ collaborators = NoCollaborators

\* async_act up to the loop of generate_multisend_transactions: the
\* adjustment map of SynchronizedData is parsed.
AsyncAct ==
    /\ round = AnotherTxPreparationRound
    /\ behaviour.pc = "async_act"
    /\ behaviour' = [behaviour EXCEPT
                         !.pc = "get_adjust_balance_data",
                         !.todo = json_loads(adjustment_balances(sd)),
                         !.multi_send_txs = <<>>]
    /\ UNCHANGED <<round, sd, collection, nb_participants, last_event, params, collaborators>>

\* One turn of the loop of generate_multisend_transactions: the call data
\* of the next token is requested; without it the token is skipped
\* (continue), with it a transaction is appended.
GetAdjustBalanceData ==
    /\ round = AnotherTxPreparationRound
    /\ behaviour.pc = "get_adjust_balance_data"
    /\ behaviour.todo # <<>>
    /\ LET item == Head(behaviour.todo)
       IN \E response_msg \in
                 AdjustBalanceResponses(item.key, py_round[float_of_number(item.value)]) :
             LET balance_adjustment_data == get_adjust_balance_data(response_msg)
             IN behaviour' = [behaviour EXCEPT
                    !.todo = Tail(@),
                    !.multi_send_txs =
                        IF DOMAIN balance_adjustment_data = {}
                        THEN @
                        ELSE Append(@, [operation |-> "CALL",
                                        to |-> balance_adjustment_data.to_address,
                                        data |-> balance_adjustment_data.data,
                                        value |-> "ZERO_VALUE"])]
    /\ UNCHANGED <<round, sd, collection, nb_participants, last_event, params, collaborators>>

\* After the loop: the transactions are packed into one multisend call;
\* without a raw transaction generate_multisend_transactions returns None,
\* and with a raw transaction that has no data the subscript body["data"]
\* raises KeyError, which ends the behaviour without a payload.
GetTxData ==
    /\ round = AnotherTxPreparationRound
    /\ behaviour.pc = "get_adjust_balance_data"
    /\ behaviour.todo = <<>>
    /\ \E contract_api_msg \in MultisendResponses(behaviour.multi_send_txs) :
           behaviour' = [behaviour EXCEPT
               !.contract_api_msg = contract_api_msg,
               !.tx_hash = None,
               !.pc = IF contract_api_msg.performative # RAW_TRANSACTION
                      THEN "send_a2a_transaction"
                      ELSE IF contract_api_msg.data = None THEN "KeyError"
                      ELSE "_build_safe_tx_hash"]
    /\ UNCHANGED <<round, sd, collection, nb_participants, last_event, params, collaborators>>

\* _build_safe_tx_hash on the packed call, and the return of
\* generate_multisend_transactions.
BuildSafeTxHash ==
    /\ round = AnotherTxPreparationRound
    /\ behaviour.pc = "_build_safe_tx_hash"
    /\ \E response_msg \in SafeHashResponses(behaviour.contract_api_msg.data) :
           behaviour' = [behaviour EXCEPT
               !.response_msg = response_msg,
               !.tx_hash = build_safe_tx_hash(behaviour.contract_api_msg.data,
                                              response_msg),
               !.pc = "send_a2a_transaction"]
    /\ UNCHANGED <<round, sd, collection, nb_participants, last_event, params, collaborators>>

\* The payload (tx_submitter, tx_hash) is sent to the active round and the
\* behaviour waits for the end of the round.
SendPayload ==
    /\ round = AnotherTxPreparationRound
    /\ behaviour.pc = "send_a2a_transaction"
    /\ Len(collection) < nb_participants
    /\ collection' = Append(collection,
                            [sender |-> Len(collection) + 1,
                             values |-> <<auto_behaviour_id, behaviour.tx_hash>>])
    /\ behaviour' = [behaviour EXCEPT !.pc = "wait_until_round_end"]
    /\ UNCHANGED <<round, sd, nb_participants, last_event, params, collaborators>>

TxPreparationNext ==
    \/ AsyncAct
    \/ GetAdjustBalanceData
    \/ GetTxData
    \/ BuildSafeTxHash
    \/ SendPayload

TxPreparationSpec == TxPreparationInit /\ [][TxPreparationNext]_vars

(***************************************************************************)
(* DataPullBehaviour and AlternativeDataPullBehaviour                      *)
(***************************************************************************)

\* The answers the contract api can give to getBalance of a token: an
\* error, a raw transaction without a balance, a balance (the int 0 or 3).
GetBalanceResponses ==
    {[performative |-> PERFORMATIVE_ERROR, balance |-> NoNumber],
     [performative |-> RAW_TRANSACTION, balance |-> NoNumber],
     [performative |-> RAW_TRANSACTION, balance |-> py_int(0)],
     [performative |-> RAW_TRANSACTION, balance |-> py_int(3)]}

\* The prices the price feed can give for a token: none, or the number of
\* the JSON answer (the float 0.1 or the int 5).
FeedPrices == {NoNumber, json_number("0.1"), json_number("5")}

\* The configurations the data-pull behaviours are run on; the last one
\* has fewer target percentages than tokens (validate_params is not called
\* when the skill is loaded).
DataPullParams ==
    {[DefaultParams EXCEPT !.tokens_to_rebalance = <<"ETH", "USDC">>],
     [DefaultParams EXCEPT !.tokens_to_rebalance = <<"ETH", "DAI">>],
     [DefaultParams EXCEPT !.tokens_to_rebalance = <<>>, !.target_percentages = <<>>],
     [DefaultParams EXCEPT !.tokens_to_rebalance = <<"ETH", "USDC">>,
                           !.target_percentages = <<100>>]}

\* The elements of a list.
Range(list) == {list[i] : i \in DOMAIN list}

\* One turn of the loop of get_token_balances: the balance that is stored
\* for a token, None without a raw transaction or without a balance in it.
readable_balance(response_msg) ==
    IF response_msg.performative # RAW_TRANSACTION THEN NoNumber
    ELSE response_msg.balance

\* get_token_price_specs of the behaviour of a round.  DataPullBehaviour
\* (Coingecko) knows the symbols ETH and USDC only;
\* AlternativeDataPullBehaviour (CoinMarketCap) asks for any symbol.
get_token_price_specs(r, prices, symbol) ==
    IF r = DataPullRound /\ symbol \notin {"ETH", "USDC"} THEN NoNumber
    ELSE prices[symbol]

\* The loop of calculate_portfolio_allocation over the items of
\* token_balances: a token without a balance or without a price is skipped,
\* the value of another one is balance * price.
RECURSIVE token_values_of(_, _, _)
token_values_of(r, prices, token_balances) ==
    IF token_balances = <<>> THEN <<>>
    ELSE LET token_symbol == Head(token_balances).key
             balance == Head(token_balances).value
             price == get_token_price_specs(r, prices, token_symbol)
             rest == token_values_of(r, prices, Tail(token_balances))
         IN IF balance = NoNumber THEN rest
            ELSE IF price = NoNumber THEN rest
            ELSE <<[key |-> token_symbol, value |-> number_mul(balance, price)]>> \o rest

\* The sum of the values of a dict, from 0.0.
RECURSIVE total_of(_)
total_of(items) ==
    IF items = <<>> THEN float_of_int[0]
    ELSE float_add[total_of(SubSeq(items, 1, Len(items) - 1)),
                   float_of_number(items[Len(items)].value)]

\* list.index(x): the first position of x in the list.
list_index(list, x) ==
    CHOOSE i \in DOMAIN list : list[i] = x /\ \A j \in 1..(i - 1) : list[j] # x

\* The entry of the report for a token, in one turn of the loop of
\* generate_and_store_report.
report_entry(r, p, prices, token, usd_value, total) ==
    LET target_percentage == p.target_percentages[list_index(p.tokens_to_rebalance, token)]
        current_percentage == float_mul[number_div(usd_value, total), float_of_int[100]]
        token_price == get_token_price_specs(r, prices, token)
    IN [token |-> token,
        current_number_of_tokens |->
            IF number_is_true(token_price) THEN number_div(usd_value, token_price)
            ELSE py_int(0),
        current_usd_value |-> usd_value,
        current_percentage_in_portfolio |-> current_percentage,
        target_percentage |-> py_int(target_percentage),
        usd_deviation_from_target |->
            float_sub[current_percentage, float_of_int[target_percentage]]]

\* The data-pull behaviour of the agent at the start of async_act.
DataPullStart ==
    [pc |-> "async_act",
     todo |-> <<>>,
     token_balances |-> <<>>,
     pending |-> <<>>,
     token_values |-> <<>>,
     total_portfolio_value |-> float_of_int[0],
     report |-> <<>>,
     report_ipfs_hash |-> None,
     allocation |-> None,
     payload |-> <<>>]

\* The rounds of the two data-pull behaviours.
DataPullRounds == {DataPullRound, AlternativeDataPullRound}

\* The workflow has entered a data-pull round with the selection that leads
\* to it, which is the one the agent's api_selection_string names, and the
\* agent starts async_act.
DataPullInit ==
    /\ round \in DataPullRounds
    /\ nb_participants \in 1..MaxParticipants
    /\ sd = ApiSelectionRound_end_block(
                InitialDb(Absent),
                unanimous_collection(
                    nb_participants,
                    <<IF round = DataPullRound THEN "coingecko" ELSE "coinmarketcap">>),
                nb_participants).sd
    /\ collection = <<>>
    /\ last_event = (IF round = DataPullRound THEN COINGECKO ELSE COINMARKETCAP)
    /\ behaviour = DataPullStart
    /\ \E p \in DataPullParams :
           params = [p EXCEPT !.api_selection_string =
                                  IF round = DataPullRound THEN "coingecko"
                                  ELSE "coinmarketcap"]
    /\ collaborators \in
           [balances : [Range(params.tokens_to_rebalance) -> GetBalanceResponses],
            prices : [Range(params.tokens_to_rebalance) -> FeedPrices]]

\* async_act calls calculate_portfolio_allocation, which calls
\* get_token_balances.
DataPullAsyncAct ==
    /\ round \in DataPullRounds
    /\ behaviour.pc = "async_act"
    /\ behaviour' = [behaviour EXCEPT
                         !.pc = "get_token_balances",
                         !.todo = params.tokens_to_rebalance,
                         !.token_balances = <<>>]
    /\ UNCHANGED <<round, sd, collection, nb_participants, last_event, params, collaborators>>

\* One turn of the loop of get_token_balances.
GetTokenBalance ==
    /\ round \in DataPullRounds
    /\ behaviour.pc = "get_token_balances"
    /\ behaviour.todo # <<>>
    /\ LET token_symbol == Head(behaviour.todo)
           response_msg == collaborators.balances[token_symbol]
       IN behaviour' = [behaviour EXCEPT
              !.todo = Tail(@),
              !.token_balances =
                  Append(@, [key |-> token_symbol, value |-> readable_balance(response_msg)])]
    /\ UNCHANGED <<round, sd, collection, nb_participants, last_event, params, collaborators>>

\* get_token_balances returns the balances, or None if there are none; with
\* None calculate_portfolio_allocation returns None.
GetTokenBalancesReturn ==
    /\ round \in DataPullRounds
    /\ behaviour.pc = "get_token_balances"
    /\ behaviour.todo = <<>>
    /\ behaviour' =
           IF behaviour.token_balances = <<>>
           THEN [behaviour EXCEPT !.pc = "unpack", !.allocation = None]
           ELSE [behaviour EXCEPT
                     !.pc = "calculate_portfolio_allocation",
                     !.pending = behaviour.token_balances,
                     !.token_values = <<>>,
                     !.total_portfolio_value = float_of_int[0]]
    /\ UNCHANGED <<round, sd, collection, nb_participants, last_event, params, collaborators>>

\* One turn of the loop of calculate_portfolio_allocation.
CalculateTokenValue ==
    /\ round \in DataPullRounds
    /\ behaviour.pc = "calculate_portfolio_allocation"
    /\ behaviour.pending # <<>>
    /\ LET token_value == token_values_of(round, collaborators.prices, <<Head(behaviour.pending)>>)
       IN behaviour' = [behaviour EXCEPT
              !.pending = Tail(@),
              !.token_values = @ \o token_value,
              !.total_portfolio_value = float_add[@, total_of(token_value)]]
    /\ UNCHANGED <<round, sd, collection, nb_participants, last_event, params, collaborators>>

\* After the loop: with a total of 0 calculate_portfolio_allocation returns
\* None; otherwise it calls generate_and_store_report with token_values and
\* the total.
CalculateTotal ==
    /\ round \in DataPullRounds
    /\ behaviour.pc = "calculate_portfolio_allocation"
    /\ behaviour.pending = <<>>
    /\ behaviour' =
           IF behaviour.total_portfolio_value = float_of_int[0]
           THEN [behaviour EXCEPT !.pc = "unpack", !.allocation = None]
           ELSE [behaviour EXCEPT
                     !.pc = "generate_and_store_report",
                     !.pending = behaviour.token_values,
                     !.report = <<>>]
    /\ UNCHANGED <<round, sd, collection, nb_participants, last_event, params, collaborators>>

\* One turn of the loop of generate_and_store_report: the target percentage
\* of the token is looked up at the position of the token in
\* tokens_to_rebalance, which raises IndexError when target_percentages is
\* shorter; the price of the token is asked again, the feed answering this
\* request with any of its prices whatever it answered before, and the
\* entry is added to the report.  The report is its list of tokens.
GenerateAndStoreReport ==
    /\ round \in DataPullRounds
    /\ behaviour.pc = "generate_and_store_report"
    /\ behaviour.pending # <<>>
    /\ LET item == Head(behaviour.pending)
       IN IF list_index(params.tokens_to_rebalance, item.key) > Len(params.target_percentages)
          THEN behaviour' = [behaviour EXCEPT !.pc = "IndexError"]
          ELSE \E price \in FeedPrices :
                   behaviour' = [behaviour EXCEPT
                       !.pending = Tail(@),
                       !.report =
                           Append(@, report_entry(
                                         round, params,
                                         [collaborators.prices EXCEPT ![item.key] = price],
                                         item.key, item.value,
                                         behaviour.total_portfolio_value))]
    /\ UNCHANGED <<round, sd, collection, nb_participants, last_event, params, collaborators>>

\* After the loop the report is sent to IPFS, which answers with a hash or
\* fails (None); generate_and_store_report returns, its report is gone, and
\* calculate_portfolio_allocation returns (token_values,
\* total_portfolio_value) in both cases.
SendToIpfs ==
    /\ round \in DataPullRounds
    /\ behaviour.pc = "generate_and_store_report"
    /\ behaviour.pending = <<>>
    /\ \E report_ipfs_hash \in {None, "report_ipfs_hash"} :
           behaviour' = [behaviour EXCEPT
               !.pc = "unpack",
               !.report = <<>>,
               !.report_ipfs_hash = report_ipfs_hash,
               !.allocation = "(token_values, total_portfolio_value)"]
    /\ UNCHANGED <<round, sd, collection, nb_participants, last_event, params, collaborators>>

\* An async_act that writes its result into SynchronizedData itself.
Unpack_WritingData ==
    /\ round \in DataPullRounds
    /\ behaviour.pc = "unpack"
    /\ behaviour' =
           IF behaviour.allocation = None
           THEN [behaviour EXCEPT !.pc = "TypeError"]
           ELSE [behaviour EXCEPT
                     !.pc = "send_a2a_transaction",
                     !.payload =
                         <<IF behaviour.token_values # <<>>
                           THEN json_dumps(behaviour.token_values)
                           ELSE None,
                           float_repr[behaviour.total_portfolio_value]>>]
    /\ sd' = IF behaviour.allocation = None THEN sd
             ELSE update(sd, "total_portfolio_value",
                         float_repr[behaviour.total_portfolio_value])
    /\ UNCHANGED <<round, collection, nb_participants, last_event, params, collaborators>>

\* async_act unpacks what calculate_portfolio_allocation returned into
\* token_values and total_portfolio_value: unpacking None raises TypeError
\* and ends the behaviour; otherwise the payload is built.
Unpack ==
    /\ round \in DataPullRounds
    /\ behaviour.pc = "unpack"
    /\ behaviour' =
           IF behaviour.allocation = None
           THEN [behaviour EXCEPT !.pc = "TypeError"]
           ELSE [behaviour EXCEPT
                     !.pc = "send_a2a_transaction",
                     !.payload =
                         <<IF behaviour.token_values # <<>>
                           THEN json_dumps(behaviour.token_values)
                           ELSE None,
                           float_repr[behaviour.total_portfolio_value]>>]
    /\ UNCHANGED <<round, sd, collection, nb_participants, last_event, params, collaborators>>

\* The payload (token_values, total_portfolio_value) is sent and arrives in
\* the round's collection; the behaviour waits for the end of the round.
SendDataPullPayload ==
    /\ round \in DataPullRounds
    /\ behaviour.pc = "send_a2a_transaction"
    /\ Len(collection) < nb_participants
    /\ collection' = Append(collection,
                            [sender |-> Len(collection) + 1, values |-> behaviour.payload])
    /\ behaviour' = [behaviour EXCEPT !.pc = "wait_until_round_end"]
    /\ UNCHANGED <<round, sd, nb_participants, last_event, params, collaborators>>

\* The payload of another agent arrives in the active round.  One place is
\* kept for the payload of this agent until it has sent it.
PeerSubmit(values) ==
    /\ round \in NonTerminalRounds
    /\ Len(collection) + (IF behaviour.pc = "wait_until_round_end" THEN 0 ELSE 1)
           < nb_participants
    /\ collection' = Append(collection, [sender |-> Len(collection) + 1, values |-> values])
    /\ UNCHANGED <<round, sd, nb_participants, last_event, behaviour, params, collaborators>>

\* The payloads the other agents send in a data-pull round: each runs the
\* same behaviour with the answers it gets itself, so it sends the payload
\* this agent has built, or another one (ETH at 20.0 alone).
DataPullPeerPayloads ==
    IF round \notin DataPullRounds THEN {}
    ELSE {<<"{\"ETH\": 20.0}", "20.0">>} \cup ({behaviour.payload} \ {<<>>})

DataPullNext ==
    \/ DataPullAsyncAct
    \/ GetTokenBalance
    \/ GetTokenBalancesReturn
    \/ CalculateTokenValue
    \/ CalculateTotal
    \/ GenerateAndStoreReport
    \/ SendToIpfs
    \/ Unpack
    \/ SendDataPullPayload
    \/ \E values \in DataPullPeerPayloads : PeerSubmit(values)
    \/ EndBlockWith(DataPullStart)

DataPullSpec == DataPullInit /\ [][DataPullNext]_vars

\* The agent keeps running its behaviour and the blocks keep ending.
DataPullFairSpec == DataPullSpec /\ WF_vars(DataPullNext)

(***************************************************************************)
(* DecisionMakingBehaviour                                                 *)
(***************************************************************************)

\* The data-pull results the decision behaviour is run on: token_values and
\* total_portfolio_value as DataPullRound committed them.
DecisionInputs ==
    {<<"{\"ETH\": 60.0, \"USDC\": 40.0}", "100.0">>,
     <<"{\"ETH\": 75.0, \"USDC\": 25.0}", "100.0">>,
     <<"{\"ETH\": 20.0}", "20.0">>,
     <<"{\"ETH\": 3.0, \"USDC\": 1.0}", "4.0">>,
     <<"{\"ETH\": 15, \"USDC\": 0}", "15.0">>}

\* The configurations the decision behaviour is run on.
DecisionParams ==
    {[DefaultParams EXCEPT !.target_percentages = percentages, !.variation_threshold = threshold] :
        percentages \in {<<50, 50>>, <<60, 40>>, <<75, 25>>, <<100, 0>>},
        threshold \in {5, 20, 25}}

\* The prices the price feed can give in the decision round: none, or the
\* number of the JSON answer (the int 2 or the float 5.0).
DecisionPrices == {NoNumber, json_number("2"), json_number("5.0")}

\* The prices Coingecko has for a token while the decision round runs.
CoingeckoPrices == {json_number("5.0")}

\* The result of one turn of the loop of calculate_rebalancing_actions, for
\* the token at position i: the exception it raises if any, and the entry it
\* adds to new_token_amounts if any.
rebalancing_action(token_values_dict, total, p, prices, i) ==
    LET token == p.tokens_to_rebalance[i]
        current_value == dict_get(token_values_dict, token, py_int(0))
        target_percentage == py_int(p.target_percentages[i])
        token_price == get_token_price_specs(DecisionMakingRound, prices, token)
        target_value == float_mul[number_div(target_percentage, py_int(100)), total]
        target_token_amount == number_div(target_value, token_price)
        deviation ==
            float_mul[float_div[float_sub[float_of_number(current_value), target_value],
                                target_value],
                      float_of_int[100]]
    IN IF token_price = NoNumber THEN [raised |-> None, entry |-> <<>>]
       ELSE IF float_of_number(token_price) = float_zero \/ target_value = float_zero
            THEN [raised |-> "ZeroDivisionError", entry |-> <<>>]
       ELSE IF float_gt[float_abs[deviation], float_of_int[p.variation_threshold]]
            THEN [raised |-> None, entry |-> <<[key |-> token, value |-> target_token_amount]>>]
            ELSE [raised |-> None, entry |-> <<>>]

\* get_next_event after calculate_rebalancing_actions has returned: the
\* event and the adjustment balances of the payload.  returned_none says
\* that the result is None, new_token_amounts is the result otherwise.
get_next_event(returned_none, new_token_amounts) ==
    IF returned_none THEN <<DONE, None>>
    ELSE <<TRANSACT,
           IF new_token_amounts # <<>> THEN json_dumps(new_token_amounts) ELSE None>>

\* The decision behaviour of the agent at the start of async_act.
DecisionStart ==
    [pc |-> "async_act",
     token_values |-> <<>>,
     i |-> 1,
     new_token_amounts |-> <<>>,
     returned_none |-> FALSE,
     payload |-> <<>>]

\* The workflow has entered DecisionMakingRound with the data of a data
\* pull, after the selection that the agent's api_selection_string names,
\* and the agent starts async_act.  Both price providers are up:
\* prices is the feed of coinmarketcap_specs, the one that
\* DecisionMakingBehaviour.get_token_price_specs asks, coingecko_prices the
\* feed of coingecko_specs, which the behaviour does not ask.
DecisionInit ==
    /\ round = DecisionMakingRound
    /\ nb_participants \in 1..MaxParticipants
    /\ \E selection \in {"coingecko", "coinmarketcap"}, data \in DecisionInputs,
          p \in DecisionParams :
           /\ sd = db_before_decision_making(nb_participants, selection, data)
           /\ params = [p EXCEPT !.api_selection_string = selection]
    /\ collection = <<>>
    /\ last_event = DONE
    /\ behaviour = DecisionStart
    /\ collaborators \in
           [balances : {<<>>},
            prices : [Range(params.tokens_to_rebalance) -> DecisionPrices],
            coingecko_prices : [Range(params.tokens_to_rebalance) -> CoingeckoPrices]]

\* async_act calls get_next_event, which calls calculate_rebalancing_actions:
\* token_values is parsed, and without a positive total the function
\* returns None.
DecisionAsyncAct ==
    /\ round = DecisionMakingRound
    /\ behaviour.pc = "async_act"
    /\ LET token_values_json == token_values(sd)
           total == total_portfolio_value(sd)
       IN behaviour' =
              IF total = None \/ float_le[json_number(total), float_of_int[0]]
              THEN [behaviour EXCEPT !.pc = "get_next_event", !.returned_none = TRUE]
              ELSE [behaviour EXCEPT
                        !.pc = "calculate_rebalancing_actions",
                        !.token_values =
                            IF token_values_json # None THEN json_loads(token_values_json)
                            ELSE <<>>,
                        !.i = 1,
                        !.new_token_amounts = <<>>]
    /\ UNCHANGED <<round, sd, collection, nb_participants, last_event, params, collaborators>>

\* One turn of the loop of calculate_rebalancing_actions; a division by zero
\* ends the behaviour.
CalculateRebalancingAction ==
    /\ round = DecisionMakingRound
    /\ behaviour.pc = "calculate_rebalancing_actions"
    /\ behaviour.i <= Len(params.tokens_to_rebalance)
    /\ LET turn == rebalancing_action(behaviour.token_values,
                                      json_number(total_portfolio_value(sd)),
                                      params, collaborators.prices, behaviour.i)
       IN behaviour' =
              IF turn.raised # None
              THEN [behaviour EXCEPT !.pc = turn.raised]
              ELSE [behaviour EXCEPT
                        !.i = @ + 1,
                        !.new_token_amounts = @ \o turn.entry]
    /\ UNCHANGED <<round, sd, collection, nb_participants, last_event, params, collaborators>>

\* After the loop calculate_rebalancing_actions returns new_token_amounts.
CalculateRebalancingActionsReturn ==
    /\ round = DecisionMakingRound
    /\ behaviour.pc = "calculate_rebalancing_actions"
    /\ behaviour.i > Len(params.tokens_to_rebalance)
    /\ behaviour' = [behaviour EXCEPT !.pc = "get_next_event", !.returned_none = FALSE]
    /\ UNCHANGED <<round, sd, collection, nb_participants, last_event, params, collaborators>>

\* get_next_event returns the event and the adjustment balances, and
\* async_act builds the payload.
GetNextEvent ==
    /\ round = DecisionMakingRound
    /\ behaviour.pc = "get_next_event"
    /\ behaviour' = [behaviour EXCEPT
                         !.pc = "send_a2a_transaction",
                         !.payload = get_next_event(behaviour.returned_none,
                                                    behaviour.new_token_amounts)]
    /\ UNCHANGED <<round, sd, collection, nb_participants, last_event, params, collaborators>>

\* The payload (event, adjustment_balances) is sent and arrives in the
\* round's collection; the behaviour waits for the end of the round.
SendDecisionPayload ==
    /\ round = DecisionMakingRound
    /\ behaviour.pc = "send_a2a_transaction"
    /\ Len(collection) < nb_participants
    /\ collection' = Append(collection,
                            [sender |-> Len(collection) + 1, values |-> behaviour.payload])
    /\ behaviour' = [behaviour EXCEPT !.pc = "wait_until_round_end"]
    /\ UNCHANGED <<round, sd, nb_participants, last_event, params, collaborators>>

\* The payloads the other agents send in the decision round: each runs
\* the same behaviour with the prices it gets itself, so it sends the
\* payload this agent has built, or (TRANSACT, None) when its feed gave it
\* no price.
DecisionPeerPayloads ==
    IF round # DecisionMakingRound THEN {}
    ELSE {<<TRANSACT, None>>} \cup ({behaviour.payload} \ {<<>>})

DecisionNext ==
    \/ DecisionAsyncAct
    \/ CalculateRebalancingAction
    \/ CalculateRebalancingActionsReturn
    \/ GetNextEvent
    \/ SendDecisionPayload
    \/ \E values \in DecisionPeerPayloads : PeerSubmit(values)
    \/ EndBlockWith(DecisionStart)

DecisionSpec == DecisionInit /\ [][DecisionNext]_vars

(***************************************************************************)
(* LearningRoundBehaviour                                                  *)
(***************************************************************************)

\* LearningRoundBehaviour.behaviours
LearningRoundBehaviour_behaviours ==
    {"ApiSelectionBehaviour", "DataPullBehaviour", "AlternativeDataPullBehaviour",
     "DecisionMakingBehaviour", "AnotherTxPreparationBehaviour"}

\* matching_round of each behaviour class, by the name the class gives.
matching_round ==
    [ApiSelectionBehaviour |-> ApiSelectionRound,
     DataPullBehaviour |-> DataPullRound,
     AlternativeDataPullBehaviour |-> AlternativeDataPullRound,
     DecisionMakingBehaviour |-> DecisionMakingRound,
     AnotherTxPreparationBehaviour |-> AnotherTxPreparationRound]

\* The behaviours that AbstractRoundBehaviour schedules for a round: those
\* whose matching round it is.
behaviours_of(r) == {b \in LearningRoundBehaviour_behaviours : matching_round[b] = r}

(***************************************************************************)
(* Params and the start of the workflow                                    *)
(***************************************************************************)

\* sum() of a list of numbers.
RECURSIVE sum(_)
sum(numbers) == IF numbers = <<>> THEN 0 ELSE Head(numbers) + sum(Tail(numbers))

\* Params.validate_params: "ok", or the ValueError it raises.
validate_params(p) ==
    IF Len(p.tokens_to_rebalance) # Len(p.target_percentages)
    THEN "The number of tokens must match the number of target percentages."
    ELSE IF sum(p.target_percentages) # 100
    THEN "Target percentages must sum to 100."
    ELSE IF ~(0 <= p.variation_threshold /\ p.variation_threshold <= 100)
    THEN "Variation threshold must be between 0 and 100."
    ELSE "ok"

\* The skill has not been loaded yet: no round is active.
NotStarted == "<not started>"

\* The configurations the skill is started with, valid and invalid.
StartUpKwargs ==
    [api_selection_string : {"coingecko", "coinmarketcap", "other"},
     tokens_to_rebalance : {<<"ETH">>, <<"ETH", "USDC">>},
     target_percentages : {<<100>>, <<50>>, <<50, 50>>, <<60, 50>>},
     variation_threshold : {0 - 1, 5, 100, 101}]

\* The agent is about to load the skill with some configuration.
StartUpInit ==
    /\ round = NotStarted
    /\ nb_participants \in 1..MaxParticipants
    /\ sd = InitialDb(Absent)
    /\ collection = <<>>
    /\ last_event = NoEvent
    /\ behaviour = IdleBehaviour
    /\ params \in StartUpKwargs
    /\ collaborators = NoCollaborators

\* Params.__init__ reads the configuration with _ensure and calls
\* super().__init__; validate_params is not called.  The skill is loaded and
\* the application starts in its initial round.
Params_init ==
    /\ round = NotStarted
    /\ round' = initial_round_cls
    /\ UNCHANGED <<sd, collection, nb_participants, last_event, behaviour, params, collaborators>>

\* ApiSelectionBehaviour.async_act: the payload is computed from the
\* configuration and sent.
ApiSelectionBehaviour_async_act ==
    /\ round = ApiSelectionRound
    /\ behaviour.pc = "idle"
    /\ Len(collection) < nb_participants
    /\ LET selection == params.api_selection_string
           selected == IF selection = "coinmarketcap" THEN selection ELSE "coingecko"
       IN collection' = Append(collection,
                               [sender |-> Len(collection) + 1,
                                values |-> <<selected>>])
    /\ behaviour' = [behaviour EXCEPT !.pc = "wait_until_round_end"]
    /\ UNCHANGED <<round, sd, nb_participants, last_event, params, collaborators>>

StartUpNext ==
    \/ Params_init
    \/ ApiSelectionBehaviour_async_act

StartUpSpec == StartUpInit /\ [][StartUpNext]_vars

(***************************************************************************)
(* Properties                                                              *)
(***************************************************************************)

\* The (round, event, next round) triples of a transition function.
TableOf(tf) ==
    UNION {{<<r, e, tf[r][e]>> : e \in DOMAIN tf[r]} : r \in DOMAIN tf}

\* The support of the value v: the distinct agents that submitted it.
Support(v) ==
    Cardinality({a \in 1..nb_participants :
                    \E i \in DOMAIN collection :
                        collection[i].sender = a /\ collection[i].values = v})

\* A step of the engine that ends the active round: the next round starts
\* with an empty collection (a submission leaves a non-empty one).
RoundEnds == collection' = <<>>

\* The table of the transition function, as the workflow is described.
C1_Table ==
    {<<ApiSelectionRound, COINGECKO, DataPullRound>>,
     <<ApiSelectionRound, COINMARKETCAP, AlternativeDataPullRound>>,
     <<DataPullRound, DONE, DecisionMakingRound>>,
     <<AlternativeDataPullRound, DONE, DecisionMakingRound>>,
     <<DecisionMakingRound, DONE, FinishedDecisionMakingRound>>,
     <<DecisionMakingRound, ERROR, FinishedDecisionMakingRound>>,
     <<DecisionMakingRound, TRANSACT, TxPreparationRound>>,
     <<TxPreparationRound, DONE, FinishedTxPreparationRound>>}
    \cup {<<r, NO_MAJORITY, r>> : r \in NonTerminalRounds}
    \cup {<<r, ROUND_TIMEOUT, r>> : r \in NonTerminalRounds}

\* C1: the transition function is exactly the table (no other (round, event)
\* pair has a successor), the initial round is ApiSelectionRound, and the
\* round the engine is in was entered by an entry of the table.
C1_TransitionFunctionIsTheTable ==
    /\ TableOf(transition_function) = C1_Table
    /\ DOMAIN transition_function = Rounds
    /\ initial_round_cls = ApiSelectionRound
    /\ last_event = NoEvent => round = ApiSelectionRound
    /\ last_event # NoEvent => \E r \in Rounds : <<r, last_event, round>> \in C1_Table

\* C1 witness: the engine has walked the table to the end of the
\* transaction path.
C1_Witness == round = FinishedTxPreparationRound /\ last_event = DONE

\* C2: in every reachable state, the event the active round's end_block
\* returns, and every event its return statements name, has an entry for
\* that round in the transition function.
C2_TransitionTableExhaustive ==
    round \in NonTerminalRounds =>
        LET event == end_block(round, sd, collection, nb_participants).event
        IN /\ event # NoEvent =>
                 /\ event \in returned_events(round)
                 /\ event \in DOMAIN transition_function[round]
           /\ returned_events(round) \subseteq DOMAIN transition_function[round]

\* C2 witness: DecisionMakingRound is about to return TRANSACT.
C2_Witness ==
    /\ round = DecisionMakingRound
    /\ end_block(round, sd, collection, nb_participants).event = TRANSACT

\* The smallest integer strictly greater than 2n/3.
C3_Quorum(n) == CHOOSE q \in 1..(n + 1) : 3 * q > 2 * n /\ 3 * (q - 1) <= 2 * n

\* C3: threshold_reached is true if and only if some payload value was
\* submitted by at least quorum(N) distinct agents.
C3_ThresholdIffQuorum ==
    round \in NonTerminalRounds =>
        (threshold_reached(collection, nb_participants)
            <=> \E v \in payload_class(round) : Support(v) >= C3_Quorum(nb_participants))

\* C3 witness: four or more participants have all submitted, and a value has
\* exactly the quorum.
C3_Witness ==
    /\ nb_participants >= 4
    /\ Len(collection) = nb_participants
    /\ threshold_reached(collection, nb_participants)
    /\ largest_nb_votes(collection) = C3_Quorum(nb_participants)

\* C4: at most one payload value has the quorum, and when the threshold is
\* reached that value is the most voted one.
C4_QuorumSafety ==
    LET winners == {v \in payload_class(round) :
                       payload_values_count(collection, v)
                           >= consensus_threshold(nb_participants)}
    IN /\ Cardinality(winners) <= 1
       /\ threshold_reached(collection, nb_participants)
             => winners = {most_voted_payload_values(collection)}

\* C4 witness: the threshold is reached in DecisionMakingRound while another
\* value has been submitted too.
C4_Witness ==
    /\ round = DecisionMakingRound
    /\ threshold_reached(collection, nb_participants)
    /\ \E i \in DOMAIN collection :
          collection[i].values # most_voted_payload_values(collection)

\* The payloads of the quorum, in their order of arrival.
C5_QuorumPayloads(coll) ==
    SelectSeq(coll, LAMBDA p : p.values = most_voted_payload_values(coll))

\* The event and the agreed keys of SynchronizedData (the raw collection
\* maps, which hold every payload, aside).
C5_Outcome(result) ==
    [event |-> result.event, data |-> [k \in BusinessKeys |-> result.sd[k]]]

\* C5: deterministic replay: the event and the SynchronizedData a round
\* produces depend on the quorum payloads only, not on the payloads that are
\* not part of the quorum nor on the order of arrival.
C5_DeterministicReplay ==
    (round \in NonTerminalRounds /\ threshold_reached(collection, nb_participants)) =>
        C5_Outcome(end_block(round, sd, collection, nb_participants))
            = C5_Outcome(end_block(round, sd, C5_QuorumPayloads(collection),
                                   nb_participants))

\* C6: one round is active; a step that ends the round is the application
\* of the event end_block returned, once (the round that starts has nothing
\* to apply); when end_block returns None, and when a payload is submitted,
\* there is no transition.
C6_ExactlyOneTransition ==
    [][LET result == end_block(round, sd, collection, nb_participants)
       IN /\ round' \in Rounds
          /\ result.event = NoEvent => ~RoundEnds
          /\ RoundEnds =>
                /\ result.event # NoEvent
                /\ round' = transition_function[round][result.event]
                /\ sd' = result.sd
                /\ last_event' = result.event
                /\ end_block(round', sd', collection', nb_participants).event = NoEvent
          /\ ~RoundEnds => round' = round /\ sd' = sd /\ last_event' = last_event
      ]_vars

\* C6 witness: DataPullRound has ended with DONE and DecisionMakingRound has
\* just started.
C6_Witness ==
    round = DecisionMakingRound /\ last_event = DONE /\ collection = <<>>

\* C7: every non-terminal round returns NO_MAJORITY once the largest class
\* of equal payloads plus the agents that have not submitted is smaller than
\* the quorum.
C7_NoMajorityWhenImpossible ==
    (/\ round \in NonTerminalRounds
     /\ ~threshold_reached(collection, nb_participants)
     /\ largest_nb_votes(collection) + (nb_participants - Len(collection))
           < consensus_threshold(nb_participants))
        => end_block(round, sd, collection, nb_participants).event = NO_MAJORITY

\* C8: on quorum ApiSelectionRound leaves the quorum value recorded as
\* api_selection and emits the branch event that names it.
C8_BranchEventNamesSelection ==
    (round = ApiSelectionRound /\ threshold_reached(collection, nb_participants)) =>
        LET result == ApiSelectionRound_end_block(sd, collection, nb_participants)
        IN /\ api_selection(result.sd) = most_voted_payload(collection)
           /\ result.event = api_selection(result.sd)

\* C9: quorum on "coinmarketcap" while "coingecko" is recorded: the recorded
\* selection becomes "coinmarketcap", the event is COINMARKETCAP, the next
\* round is AlternativeDataPullRound and no other key changes.
C9_SwitchToCoinMarketCap ==
    [][(/\ round = ApiSelectionRound
        /\ threshold_reached(collection, nb_participants)
        /\ most_voted_payload(collection) = "coinmarketcap"
        /\ api_selection(sd) = "coingecko"
        /\ RoundEnds)
          => /\ sd'.api_selection = "coinmarketcap"
             /\ last_event' = COINMARKETCAP
             /\ round' = AlternativeDataPullRound
             /\ \A k \in (DOMAIN sd) \ {"api_selection"} : sd'[k] = sd[k]
      ]_vars

\* C9 witness: AlternativeDataPullRound has been entered with
\* "coinmarketcap" recorded.
C9_Witness ==
    /\ round = AlternativeDataPullRound
    /\ last_event = COINMARKETCAP
    /\ sd.api_selection = "coinmarketcap"

\* C10: DataPullRound, AlternativeDataPullRound and TxPreparationRound on
\* quorum write the fields of the quorum value, in payload order, to their
\* selection keys and emit DONE.
C10_QuorumValueCommitted ==
    [][(/\ round \in {DataPullRound, AlternativeDataPullRound, TxPreparationRound}
        /\ threshold_reached(collection, nb_participants)
        /\ RoundEnds)
          => LET winner == CHOOSE v \in payload_class(round) :
                              Support(v) >= C3_Quorum(nb_participants)
             IN /\ last_event' = DONE
                /\ IF round = TxPreparationRound
                   THEN /\ sd'.tx_submitter = winner[1]
                        /\ sd'.most_voted_tx_hash = winner[2]
                   ELSE /\ sd'.token_values = winner[1]
                        /\ sd'.total_portfolio_value = winner[2]
      ]_vars

\* C10 witness: TxPreparationRound committed the hash of the quorum although
\* another hash was submitted as well.
C10_Witness ==
    /\ round = FinishedTxPreparationRound
    /\ sd.most_voted_tx_hash = "0xaa"
    /\ \E i \in DOMAIN sd.participant_to_tx_round :
          sd.participant_to_tx_round[i].values[2] = "0xbb"

\* The value that has the quorum in the active round's collection.
QuorumValue ==
    CHOOSE v \in payload_class(round) : Support(v) >= C3_Quorum(nb_participants)

\* C11: DecisionMakingRound on quorum: a winning payload with an adjustment
\* mapping has the mapping written to adjustment_balances and gives TRANSACT
\* (next round TxPreparationRound); a winning payload without one gives
\* DONE, unchanged SynchronizedData and FinishedDecisionMakingRound.
C11_DecisionOnQuorum ==
    (round = DecisionMakingRound /\ threshold_reached(collection, nb_participants)) =>
        LET result == DecisionMakingRound_end_block(sd, collection, nb_participants)
        IN IF QuorumValue[2] # None
           THEN /\ result.event = TRANSACT
                /\ result.sd = update(sd, "adjustment_balances", QuorumValue[2])
                /\ transition_function[round][result.event] = TxPreparationRound
           ELSE /\ result.event = DONE
                /\ result.sd = sd
                /\ transition_function[round][result.event] = FinishedDecisionMakingRound

\* C12: the adjustment_balances DecisionMakingRound leaves in
\* SynchronizedData on quorum is the adjustment mapping of the quorum value
\* (nothing new when the quorum value carries none), whatever else was
\* submitted and in whatever order.
C12_SelectedPayloadIsOfTheQuorum ==
    (round = DecisionMakingRound /\ threshold_reached(collection, nb_participants)) =>
        adjustment_balances(
            DecisionMakingRound_end_block(sd, collection, nb_participants).sd)
          = IF QuorumValue[2] # None THEN QuorumValue[2] ELSE adjustment_balances(sd)

\* C13: FinishedTxPreparationRound is never reached with an empty
\* most_voted_tx_hash, and a quorum on a payload without a hash does not
\* make TxPreparationRound emit DONE.
C13_NoEmptyTxHash ==
    /\ round = FinishedTxPreparationRound => most_voted_tx_hash(sd) # None
    /\ (/\ round = TxPreparationRound
        /\ threshold_reached(collection, nb_participants)
        /\ QuorumValue[2] = None)
          => end_block(round, sd, collection, nb_participants).event # DONE

C20_LaterRoundsObserveCommits ==
    /\ [](round \in {DecisionMakingRound, TxPreparationRound} =>
            /\ threshold_reached(sd.participant_to_data_round, nb_participants)
            /\ <<sd.token_values, sd.total_portfolio_value>>
                  = most_voted_payload_values(sd.participant_to_data_round))
    /\ [](round = TxPreparationRound => adjustment_balances(sd) # None)
    /\ [][/\ (round = DecisionMakingRound /\ round' = TxPreparationRound) =>
                /\ sd'.adjustment_balances
                      = DecisionMakingRound_end_block(sd, collection, nb_participants)
                            .sd.adjustment_balances
                /\ sd'.token_values = sd.token_values
                /\ sd'.total_portfolio_value = sd.total_portfolio_value
          /\ (round = TxPreparationRound /\ round' = TxPreparationRound) =>
                sd'.adjustment_balances = sd.adjustment_balances
         ]_vars

\* C20 witness: TxPreparationRound is active after a data-pull round and
\* DecisionMakingRound have committed.
C20_Witness ==
    /\ round = TxPreparationRound
    /\ sd.token_values = "{\"ETH\": 60.0, \"USDC\": 40.0}"
    /\ sd.adjustment_balances = "{\"USDC\": 7.0}"
    /\ collection # <<>>

\* A step of the workflow: a step of Next or a timeout.
WorkflowStep == Next \/ Timeout

\* C15: a non-terminal round that is undecided (end_block returns None) has
\* a timeout that can fire ROUND_TIMEOUT and make the engine re-enter the
\* same round with an empty collection.
C15_TimeoutRestartsUndecidedRound ==
    (/\ round \in NonTerminalRounds
     /\ end_block(round, sd, collection, nb_participants).event = NoEvent)
        => ENABLED (/\ Timeout
                    /\ round' = round
                    /\ collection' = <<>>
                    /\ last_event' = ROUND_TIMEOUT)

\* C16: an activation of a non-terminal round in which no value can reach
\* the quorum any more can end with NO_MAJORITY or ROUND_TIMEOUT and restart
\* the round.
C16_NoSilentDeadlock ==
    (/\ round \in NonTerminalRounds
     /\ ~threshold_reached(collection, nb_participants)
     /\ ~is_majority_possible(collection, nb_participants))
        => ENABLED (/\ WorkflowStep
                    /\ last_event' \in {NO_MAJORITY, ROUND_TIMEOUT}
                    /\ round' = round
                    /\ collection' = <<>>)

\* C18: a finished round has no transition and no step, so the round and
\* SynchronizedData stay as they are; and the workflow stops (no step can
\* change the state) in the finished rounds only.
C18_FinishedRoundsAbsorbing ==
    /\ round \in final_states =>
          /\ DOMAIN transition_function[round] = {}
          /\ ~ENABLED <<WorkflowStep>>_vars
    /\ ~ENABLED <<WorkflowStep>>_vars => round \in final_states

\* The first half of C18 alone: the finished rounds are absorbing.
C18_Absorbing ==
    round \in final_states =>
        /\ DOMAIN transition_function[round] = {}
        /\ ~ENABLED <<WorkflowStep>>_vars

\* The number of round-changing transitions that lead from ApiSelectionRound
\* to a round.
C17_Depth(r) ==
    CASE r = ApiSelectionRound -> 0
      [] r \in {DataPullRound, AlternativeDataPullRound} -> 1
      [] r = DecisionMakingRound -> 2
      [] r \in {TxPreparationRound, FinishedDecisionMakingRound} -> 3
      [] r = FinishedTxPreparationRound -> 4

\* Every activation of a non-terminal round eventually has a quorum of
\* matching non-empty payloads.
C17_EveryActivationReachesQuorum ==
    [](round \in NonTerminalRounds =>
          <>(/\ threshold_reached(collection, nb_participants)
             /\ most_voted_payload(collection) # None))

\* C17: under fairness, if every activation of a non-terminal round
\* eventually collects a quorum of matching non-empty payloads, the workflow
\* eventually reaches a finished round; every round-changing transition leads
\* one transition further from ApiSelectionRound, and no round is further
\* than four transitions away.
C17_Termination ==
    /\ C17_EveryActivationReachesQuorum => <>(round \in final_states)
    /\ [][round' # round => C17_Depth(round') = C17_Depth(round) + 1]_vars
    /\ [](C17_Depth(round) <= 4)

\* C17 witness: a run reached FinishedTxPreparationRound through the
\* COINMARKETCAP branch, four round-changing transitions from
\* ApiSelectionRound.
C17_Witness ==
    /\ round = FinishedTxPreparationRound
    /\ C17_Depth(round) = 4
    /\ api_selection(sd) = "coinmarketcap"
    /\ most_voted_tx_hash(sd) # None

\* The transactions of all the tokens of an adjustment map, each with its
\* call data.
C14_AllTransactions(text) ==
    LET items == json_loads(text)
    IN [i \in 1..Len(items) |->
           [operation |-> "CALL",
            to |-> "MOCKDEX",
            data |-> adjustBalance(items[i].key, py_round[float_of_number(items[i].value)]),
            value |-> "ZERO_VALUE"]]

\* The hash of the multisend call over all the tokens of an adjustment map.
C14_FullHash(text) ==
    LET data == get_tx_data(C14_AllTransactions(text))
    IN hash_payload_to_hex(get_raw_safe_transaction_hash(data), "multisend_address", data)

\* C14: when the transaction-preparation behaviour has built its payload,
\* the tx_hash is None if the call data of a token of the adjustment map was
\* missing, if the packing failed or if the digest failed; a hash that is
\* not None is the hash over all the tokens of the map.
C14_AssemblyAbortsAsAWhole ==
    behaviour.pc \in {"send_a2a_transaction", "wait_until_round_end"} =>
        LET text == adjustment_balances(sd)
        IN /\ Len(behaviour.multi_send_txs) < Len(json_loads(text))
                  => behaviour.tx_hash = None
           /\ behaviour.contract_api_msg.performative # RAW_TRANSACTION
                  => behaviour.tx_hash = None
           /\ (\/ behaviour.response_msg.performative # PERFORMATIVE_STATE
               \/ behaviour.response_msg.tx_hash = None
               \/ ~behaviour.response_msg.length_ok)
                  => behaviour.tx_hash = None
           /\ behaviour.tx_hash # None => behaviour.tx_hash = C14_FullHash(text)

\* The round is undecided: no value has the quorum and a majority is still
\* possible.
C30_Undecided ==
    /\ round \in NonTerminalRounds
    /\ ~threshold_reached(collection, nb_participants)
    /\ is_majority_possible(collection, nb_participants)

\* C30: while no value has the quorum and a majority is still possible,
\* end_block of the active round returns None (no event, the data as it
\* was); the end of the block changes nothing, and a further payload can
\* still be submitted.
C30_UndecidedRoundWaits ==
    /\ [](C30_Undecided =>
            /\ end_block(round, sd, collection, nb_participants) = Result(sd, NoEvent)
            /\ ENABLED (\E values \in payload_class(round) : Submit(values)))
    /\ [][(C30_Undecided /\ EndBlock) => UNCHANGED vars]_vars
    /\ [][C30_Undecided =>
             /\ round' = round /\ sd' = sd
             /\ \A i \in DOMAIN collection :
                   i \in DOMAIN collection' /\ collection'[i] = collection[i]]_vars

C30_Witness ==
    /\ round = DecisionMakingRound
    /\ Len(collection) = 2
    /\ collection[1].values # collection[2].values
    /\ C30_Undecided

\* C29: the collection holds at most one payload per agent, and never more
\* payloads than participants; a step that changes payloads of the running
\* activation without adding one changes the entry of exactly one agent,
\* keeps that agent's place, and leaves the entry and the vote of every
\* other agent as they were.
C29_OnePayloadPerAgent ==
    /\ [](/\ Cardinality(Senders(collection)) = Len(collection)
          /\ Len(collection) <= nb_participants)
    /\ [][(collection' # collection /\ collection' # <<>>) =>
            \/ /\ Len(collection') = Len(collection) + 1
               /\ \A j \in DOMAIN collection : collection'[j] = collection[j]
               /\ collection'[Len(collection')].sender \notin Senders(collection)
            \/ /\ Len(collection') = Len(collection)
               /\ \E i \in DOMAIN collection :
                     /\ collection'[i].sender = collection[i].sender
                     /\ collection'[i].values # collection[i].values
                     /\ \A j \in DOMAIN collection \ {i} :
                           /\ collection'[j] = collection[j]
                           /\ collection[j].sender \in
                                  Voters(collection', collection[j].values)
                     /\ \A v \in payload_class(round) :
                           Voters(collection', v) \ {collection[i].sender} =
                               Voters(collection, v) \ {collection[i].sender}]_vars

\* An agent has replaced its payload while another agent's payload stays.
C29_Witness ==
    /\ round = DataPullRound
    /\ Len(collection) = 2
    /\ collection[1].values # collection[2].values
    /\ ENABLED (\E values \in payload_class(round) : Resubmit(1, values))
    /\ nb_participants = 2

\* C27: whenever the engine is in a non-terminal round exactly one behaviour
\* is matched to the active round, and every behaviour is matched to a round
\* of the transition function.
C27_OneDriverPerRound ==
    /\ round \in NonTerminalRounds => Cardinality(behaviours_of(round)) = 1
    /\ \A b \in LearningRoundBehaviour_behaviours :
          matching_round[b] \in DOMAIN transition_function

\* C21: a round is active, or a payload has been computed, only with a
\* configuration that validate_params accepts.
C21_NoRoundWithInvalidConfiguration ==
    (round # NotStarted \/ collection # <<>>) => validate_params(params) = "ok"

\* The balance the balance reader has for a token, NoNumber if it has none.
C23_Balance(t) ==
    LET answer == collaborators.balances[t]
    IN IF answer.performative = RAW_TRANSACTION THEN answer.balance ELSE NoNumber

\* The tracked tokens that have both a balance and a price.
C23_TokensWithBoth ==
    {t \in Range(params.tokens_to_rebalance) :
        /\ C23_Balance(t) # NoNumber
        /\ get_token_price_specs(round, collaborators.prices, t) # NoNumber}

\* balance * price of a token that has both.
C23_Product(t) ==
    number_mul(C23_Balance(t), get_token_price_specs(round, collaborators.prices, t))

\* The sum, from 0.0 and in the order of the tracked tokens, of balance *
\* price over the first k tracked tokens that have both.
RECURSIVE C23_Sum(_)
C23_Sum(k) ==
    IF k = 0 THEN float_zero
    ELSE IF params.tokens_to_rebalance[k] \in C23_TokensWithBoth
    THEN float_add[C23_Sum(k - 1), float_of_number(C23_Product(params.tokens_to_rebalance[k]))]
    ELSE C23_Sum(k - 1)

\* The sum over all tracked tokens.
C23_Total == C23_Sum(Len(params.tokens_to_rebalance))

\* The loop of calculate_portfolio_allocation is over.
C23_LoopDone ==
    /\ round \in DataPullRounds
    /\ \/ behaviour.pc \in {"generate_and_store_report", "unpack", "send_a2a_transaction",
                            "wait_until_round_end", "TypeError", "IndexError"}
       \/ behaviour.pc = "calculate_portfolio_allocation" /\ behaviour.pending = <<>>

\* calculate_portfolio_allocation has returned to async_act.
C23_Returned ==
    /\ round \in DataPullRounds
    /\ behaviour.pc \in {"unpack", "send_a2a_transaction", "wait_until_round_end", "TypeError"}

\* C23: for every assignment of balances and prices to the tracked tokens
\* (there is at least one), calculate_portfolio_allocation computes token_values with exactly the
\* tokens that have both a balance and a price, each once and with the
\* value balance * price (0 for a balance of 0), and total_portfolio_value
\* as the sum of these values, and it returns them: the computation does
\* not fail, and the payload carries the values.
C23_PortfolioAllocation ==
    (C23_LoopDone /\ params.tokens_to_rebalance # <<>>) =>
        /\ dict_keys(behaviour.token_values) = C23_TokensWithBoth
        /\ Len(behaviour.token_values) = Cardinality(C23_TokensWithBoth)
        /\ \A t \in C23_TokensWithBoth :
               /\ dict_get(behaviour.token_values, t, NoNumber) = C23_Product(t)
               /\ C23_Balance(t) = py_int(0) =>
                      float_of_number(dict_get(behaviour.token_values, t, NoNumber)) = float_zero
        /\ behaviour.total_portfolio_value = C23_Total
        /\ behaviour.pc \notin {"TypeError", "IndexError"}
        /\ C23_Returned => behaviour.allocation # None
        /\ behaviour.pc \in {"send_a2a_transaction", "wait_until_round_end"} =>
               behaviour.payload
                   = <<IF behaviour.token_values # <<>>
                       THEN json_dumps(behaviour.token_values) ELSE None,
                       float_repr[behaviour.total_portfolio_value]>>

\* C22: when no tracked token has both a balance and a price, so that the
\* total is zero, the run leaves the data-pull round with ERROR and ends in
\* FinishedDecisionMakingRound.
C22_ZeroTotalEndsWithError ==
    (/\ C23_LoopDone
     /\ params.tokens_to_rebalance # <<>>
     /\ C23_TokensWithBoth = {}
     /\ behaviour.total_portfolio_value = float_zero)
        ~> (round = FinishedDecisionMakingRound /\ last_event = ERROR)

\* C26: whatever the balance reader, the price feed and the content store
\* answer for the tracked tokens, the data-pull behaviour does not raise an
\* error.
C26_NoCollaboratorFailureAborts ==
    (round \in DataPullRounds /\ params.tokens_to_rebalance # <<>>)
        => behaviour.pc # "TypeError"

\* The current value of the token at position i, the total and the price of
\* the token in the decision round, as the data pull and the feed gave them.
C24_CurrentValue(i) ==
    float_of_number(dict_get(json_loads(token_values(sd)), params.tokens_to_rebalance[i],
                             py_int(0)))

C24_Total == json_number(total_portfolio_value(sd))

C24_Price(i) == collaborators.prices[params.tokens_to_rebalance[i]]

\* |deviation_pct| > threshold for the token at position i, with
\* target_value = target_pct/100 * total and deviation_pct =
\* (current_value - target_value)/target_value * 100, multiplied out in
\* the integers: the values of the runs are whole numbers.
C24_DeviationExceedsThreshold(i) ==
    LET pct_times_total == params.target_percentages[i] * py_round[C24_Total]
    IN int_abs(100 * py_round[C24_CurrentValue(i)] - pct_times_total) * 100
           > params.variation_threshold * pct_times_total

\* target_value/price with the price p for the token at position i, where
\* target_value = target_pct/100 * total.
C24_TargetAmountAt(i, p) ==
    number_div(float_mul[float_div[float_of_int[params.target_percentages[i]],
                                   float_of_int[100]],
                         C24_Total],
               p)

\* target_value/price for the token at position i.
C24_TargetTokenAmount(i) == C24_TargetAmountAt(i, C24_Price(i))

\* calculate_rebalancing_actions has been run on a positive total and is no
\* longer in its loop.
C24_Calculated ==
    /\ round = DecisionMakingRound
    /\ "returned_none" \in DOMAIN behaviour
    /\ behaviour.pc \notin {"async_act", "calculate_rebalancing_actions"}
    /\ ~behaviour.returned_none

\* C24: calculate_rebalancing_actions returns, for every tracked token with
\* a price, an entry if and only if the absolute deviation of the token is
\* strictly greater than the threshold, and the entry is target_value/price.
C24_RebalancingActions ==
    C24_Calculated =>
        /\ behaviour.pc # "ZeroDivisionError"
        /\ \A i \in DOMAIN params.tokens_to_rebalance :
               LET token == params.tokens_to_rebalance[i]
               IN IF C24_Price(i) = NoNumber
                  THEN token \notin dict_keys(behaviour.new_token_amounts)
                  ELSE /\ token \in dict_keys(behaviour.new_token_amounts)
                              <=> C24_DeviationExceedsThreshold(i)
                       /\ token \in dict_keys(behaviour.new_token_amounts) =>
                              dict_get(behaviour.new_token_amounts, token, NoNumber)
                                  = C24_TargetTokenAmount(i)

\* The decision behaviour has built its payload.
C25_PayloadBuilt ==
    /\ round = DecisionMakingRound
    /\ "returned_none" \in DOMAIN behaviour
    /\ behaviour.pc \in {"send_a2a_transaction", "wait_until_round_end"}

\* C25: the payload of the decision behaviour is (DONE, None) when the
\* computed adjustment map is empty and (TRANSACT, the serialized map) when
\* it is not, so the event is TRANSACT exactly when the payload carries a map.
C25_EventMatchesMap ==
    C25_PayloadBuilt =>
        /\ behaviour.new_token_amounts = <<>> => behaviour.payload = <<DONE, None>>
        /\ behaviour.new_token_amounts # <<>> =>
               behaviour.payload = <<TRANSACT, json_dumps(behaviour.new_token_amounts)>>
        /\ behaviour.payload[1] = TRANSACT <=> behaviour.payload[2] # None

\* The decision behaviour has built a payload that carries an adjustment
\* map.
C28_Serialized ==
    /\ "returned_none" \in DOMAIN behaviour
    /\ behaviour.pc \in {"send_a2a_transaction", "wait_until_round_end"}
    /\ behaviour.payload[2] # None

\* Two mappings have the same key set and the same value for every key.
C28_SameMapping(a, b) ==
    /\ dict_keys(a) = dict_keys(b)
    /\ Len(a) = Cardinality(dict_keys(b))
    /\ \A token \in dict_keys(a) :
           dict_get(a, token, NoNumber) = dict_get(b, token, NoNumber)

\* C28: the text that the decision behaviour serializes into its payload
\* parses (json.loads, as generate_multisend_transactions parses
\* adjustment_balances) to a mapping with the keys and the values of the
\* map that calculate_rebalancing_actions computed; the step that leaves
\* DecisionMakingRound with TRANSACT commits as adjustment_balances,
\* unchanged, the text of a TRANSACT payload of the collection (the one the
\* search of end_block selects); and while TxPreparationRound is active
\* adjustment_balances parses to a non-empty mapping, which, when the
\* committed text is the one this agent sent, is the computed map.
C28_AdjustmentMapRoundTrip ==
    /\ [](C28_Serialized =>
             C28_SameMapping(json_loads(behaviour.payload[2]), behaviour.new_token_amounts))
    /\ [][(round = DecisionMakingRound /\ round' = TxPreparationRound) =>
             \E i \in DOMAIN collection :
                 /\ collection[i].values[1] = TRANSACT
                 /\ collection[i].values[2] # None
                 /\ sd'.adjustment_balances = collection[i].values[2]]_vars
    /\ [](round = TxPreparationRound =>
             /\ adjustment_balances(sd) # None
             /\ json_loads(adjustment_balances(sd)) # <<>>
             /\ (C28_Serialized /\ adjustment_balances(sd) = behaviour.payload[2]) =>
                    C28_SameMapping(json_loads(adjustment_balances(sd)),
                                    behaviour.new_token_amounts))

\* The map {ETH: 37.5, USDC: 12.5} was computed, serialized into the payload
\* of this agent and committed by the quorum.
C28_Witness ==
    /\ round = TxPreparationRound
    /\ adjustment_balances(sd) = "{\"ETH\": 37.5, \"USDC\": 12.5}"
    /\ behaviour.payload = <<TRANSACT, "{\"ETH\": 37.5, \"USDC\": 12.5}">>
    /\ behaviour.new_token_amounts
           = <<[key |-> "ETH", value |-> float_div[float_of_int[75], float_of_int[2]]],
               [key |-> "USDC", value |-> float_div[float_of_int[25], float_of_int[2]]]>>

\* C31: NO_MAJORITY is never returned too early: in every state in which
\* end_block of the active round returns NO_MAJORITY the threshold is not
\* reached and the largest class of equal payloads plus the agents that
\* have not submitted is smaller than the quorum; and every step that ends
\* a round with NO_MAJORITY starts from such a state.
C31_TooEarly ==
    \/ threshold_reached(collection, nb_participants)
    \/ largest_nb_votes(collection) + (nb_participants - Len(collection))
          >= consensus_threshold(nb_participants)

C31_NoMajorityNeverTooEarly ==
    /\ [](end_block(round, sd, collection, nb_participants).event = NO_MAJORITY
             => ~C31_TooEarly)
    /\ [][(RoundEnds /\ last_event' = NO_MAJORITY) => ~C31_TooEarly]_vars

C31_Witness ==
    /\ round = DecisionMakingRound
    /\ last_event = NO_MAJORITY
    /\ collection = <<>>
    /\ nb_participants = 3

\* The step ends the active round with the event e returned by end_block.
C32_EndsWith(e) ==
    /\ EndBlock
    /\ end_block(round, sd, collection, nb_participants).event = e

\* C32: NO_MAJORITY and ROUND_TIMEOUT lead every non-terminal round back to
\* itself; the step that ends a round with one of them re-enters the same
\* round with an empty collection, in which no value has a vote, and with
\* SynchronizedData as it was; SynchronizedData never changes while the
\* round stays the same, so the retry starts with the data the failed
\* attempt started with.
C32_RetryStartsAfresh ==
    /\ [](\A r \in NonTerminalRounds : \A e \in {NO_MAJORITY, ROUND_TIMEOUT} :
             /\ e \in DOMAIN transition_function[r]
             /\ transition_function[r][e] = r)
    /\ [][(C32_EndsWith(NO_MAJORITY) \/ Timeout) =>
             /\ round' = round
             /\ collection' = <<>>
             /\ sd' = sd
             /\ last_event' \in {NO_MAJORITY, ROUND_TIMEOUT}
             /\ \A values \in payload_class(round') :
                   payload_values_count(collection', values) = 0
             /\ ~threshold_reached(collection', nb_participants')
      ]_vars
    /\ [][round' = round => sd' = sd]_vars

\* C32 witness: the retry of a data-pull round after NO_MAJORITY has its
\* first payload, and the data is that of the start of the round.
C32_Witness ==
    /\ round = AlternativeDataPullRound
    /\ last_event = NO_MAJORITY
    /\ Len(collection) = 1
    /\ api_selection(sd) = "coinmarketcap"
    /\ sd.token_values = Absent

\* The rounds that are entered only after the round r has emitted its
\* success event.
C33_After(r) ==
    CASE r \in {DataPullRound, AlternativeDataPullRound} ->
            {DecisionMakingRound, TxPreparationRound,
             FinishedDecisionMakingRound, FinishedTxPreparationRound}
      [] r = DecisionMakingRound ->
            {TxPreparationRound, FinishedDecisionMakingRound, FinishedTxPreparationRound}
      [] r = TxPreparationRound -> {FinishedTxPreparationRound}

\* C33: once a data-pull round, DecisionMakingRound or TxPreparationRound
\* has reached the quorum and emitted its success event, the collection of
\* the round is stored under the round's collection_key in every later
\* state: participant_to_data_round, participant_to_decision_making_round
\* and participant_to_tx_round can be read.
C33_CollectionStoredUnderKey ==
    /\ round \in C33_After(DataPullRound) => sd.participant_to_data_round # <<>>
    /\ round \in C33_After(DecisionMakingRound) =>
          sd.participant_to_decision_making_round # <<>>
    /\ round \in C33_After(TxPreparationRound) => sd.participant_to_tx_round # <<>>

\* The key k has no entry in the db.
C34_Missing(db, k) == IF k \in BusinessKeys THEN db[k] = Absent ELSE db[k] = <<>>

\* C34: SynchronizedData is append-only: no step removes a key; a value of
\* token_values, total_portfolio_value, adjustment_balances, tx_submitter
\* or most_voted_tx_hash that a round has committed is never changed by a
\* later step; api_selection is changed only by the step that ends
\* ApiSelectionRound, a round that is never entered again, so that the
\* committed value is never changed either.
C34_AppendOnly ==
    /\ [][/\ DOMAIN sd' = DOMAIN sd
          /\ \A k \in DOMAIN sd : ~C34_Missing(sd, k) => ~C34_Missing(sd', k)]_vars
    /\ [][\A k \in DOMAIN sd \ {"api_selection"} :
             ~C34_Missing(sd, k) => sd'[k] = sd[k]]_vars
    /\ [][sd'.api_selection # sd.api_selection =>
             (round = ApiSelectionRound /\ round' # ApiSelectionRound)]_vars
    /\ [][round # ApiSelectionRound =>
             (round' # ApiSelectionRound /\ sd'.api_selection = sd.api_selection)]_vars

\* C34 witness: the end of a run in which every round committed its keys.
C34_Witness ==
    /\ round = FinishedTxPreparationRound
    /\ \A k \in DOMAIN sd : ~C34_Missing(sd, k) \/ k = "participant_to_decision_making_round"
    /\ sd.api_selection = "coinmarketcap"
    /\ last_event = DONE

\* The step ends ApiSelectionRound with a branch event.
C35_BranchStep ==
    /\ EndBlock
    /\ end_block(round, sd, collection, nb_participants).event \in {COINGECKO, COINMARKETCAP}

\* C35: the price source is decided once per run: a step that applies a
\* branch event leaves ApiSelectionRound, and ApiSelectionRound is never
\* active again; once one of the data-pull rounds is active the other one
\* never is; a round that the engine has left for a different round is
\* never active again.
C35_DecidedOnce ==
    /\ [][C35_BranchStep =>
             /\ round = ApiSelectionRound
             /\ round' \in {DataPullRound, AlternativeDataPullRound}
             /\ last_event' \in {COINGECKO, COINMARKETCAP}]_vars
    /\ [][last_event' # last_event /\ last_event' \in {COINGECKO, COINMARKETCAP}
             => C35_BranchStep]_vars
    /\ [](round # ApiSelectionRound => [](round # ApiSelectionRound))
    /\ [](round = DataPullRound => [](round # AlternativeDataPullRound))
    /\ [](round = AlternativeDataPullRound => [](round # DataPullRound))
    /\ \A r \in Rounds : [](round = r => []((round # r) => [](round # r)))

\* C35 witness: the run took the CoinMarketCap branch and is two rounds
\* further.
C35_Witness ==
    /\ round = TxPreparationRound
    /\ sd.participant_to_data_round # <<>>
    /\ sd.api_selection = "coinmarketcap"
    /\ Len(collection) = 2

\* C36: in a run whose initial SynchronizedData has no api_selection entry
\* (the payloads of ApiSelectionRound are "coingecko" or "coinmarketcap"),
\* the recorded api_selection is "coingecko" whenever DataPullRound is
\* active and "coinmarketcap" whenever AlternativeDataPullRound is active.
C36_SelectionMatchesActiveRound ==
    (sd.api_selection = Absent /\ round = initial_round_cls) =>
        [](/\ round = ApiSelectionRound =>
                 \A i \in DOMAIN collection :
                    collection[i].values[1] \in {"coingecko", "coinmarketcap"}
           /\ round = DataPullRound => api_selection(sd) = "coingecko"
           /\ round = AlternativeDataPullRound => api_selection(sd) = "coinmarketcap")

\* C36 witness: DataPullRound is active in a run that started without an
\* api_selection entry and has none yet: the accessor gives the default.
C36_Witness ==
    /\ round = DataPullRound
    /\ sd.api_selection = Absent
    /\ last_event = COINGECKO
    /\ Len(collection) = 1

\* C37: whenever the threshold is reached in DecisionMakingRound a payload
\* of the collection has the winning event, so the search of end_block
\* finds a payload and end_block does not return ERROR; no end_block
\* returns ERROR and ERROR is never the event applied.
C37_ErrorNeverEmitted ==
    /\ (round = DecisionMakingRound /\ threshold_reached(collection, nb_participants)) =>
          /\ \E i \in DOMAIN collection :
                collection[i].values[1] = most_voted_payload(collection)
          /\ first_payload_with_event(collection, most_voted_payload(collection)) # None
          /\ DecisionMakingRound_end_block(sd, collection, nb_participants).event
                \in {DONE, TRANSACT}
    /\ round \in NonTerminalRounds =>
          end_block(round, sd, collection, nb_participants).event # ERROR
    /\ last_event # ERROR

\* C37 witness: the threshold is reached in DecisionMakingRound although the
\* first payload of the collection has another event than the winning one.
C37_Witness ==
    /\ round = DecisionMakingRound
    /\ threshold_reached(collection, nb_participants)
    /\ collection[1].values[1] # most_voted_payload(collection)
    /\ Len(collection) = nb_participants

\* The decision behaviour runs on a configuration that validate_params
\* accepts and on a positive total portfolio value.
C38_ValidRun ==
    /\ round = DecisionMakingRound
    /\ "returned_none" \in DOMAIN behaviour
    /\ validate_params(params) = "ok"
    /\ total_portfolio_value(sd) # None
    /\ float_gt[json_number(total_portfolio_value(sd)), float_of_int[0]]

\* C38: on a configuration that validate_params accepts and a positive
\* total, no turn of the loop of calculate_rebalancing_actions for a token
\* with a price divides by zero, also not for a token whose target
\* percentage is 0, and the behaviour does not end with ZeroDivisionError.
C38_NoDivisionByZero ==
    C38_ValidRun =>
        /\ (/\ behaviour.pc = "calculate_rebalancing_actions"
            /\ behaviour.i <= Len(params.tokens_to_rebalance)
            /\ collaborators.prices[params.tokens_to_rebalance[behaviour.i]] # NoNumber)
              => rebalancing_action(behaviour.token_values,
                                    json_number(total_portfolio_value(sd)),
                                    params, collaborators.prices, behaviour.i).raised = None
        /\ behaviour.pc # "ZeroDivisionError"

\* The price of the token at position i at the provider that api_selection
\* records.
C39_SelectedPrice(i) ==
    IF api_selection(sd) = "coingecko"
    THEN collaborators.coingecko_prices[params.tokens_to_rebalance[i]]
    ELSE collaborators.prices[params.tokens_to_rebalance[i]]

\* C39: the decision behaviour computes the target token amounts with the
\* prices of the provider recorded in api_selection: every entry of the map
\* that calculate_rebalancing_actions returns is target_value divided by
\* the price of the token at that provider (Coingecko in a run that took the
\* COINGECKO branch, CoinMarketCap in a run that took the COINMARKETCAP
\* branch).
C39_PricesFromSelectedProvider ==
    (C24_Calculated /\ behaviour.pc # "ZeroDivisionError") =>
        \A i \in DOMAIN params.tokens_to_rebalance :
            LET token == params.tokens_to_rebalance[i]
            IN token \in dict_keys(behaviour.new_token_amounts) =>
                   dict_get(behaviour.new_token_amounts, token, NoNumber)
                       = C24_TargetAmountAt(i, C39_SelectedPrice(i))

====
